---------------------------- MODULE Spec2Model ----------------------------
(***************************************************************************)
(* A model of the moma_simulation_engine crate: the flow network           *)
(* (src/src/network_graph.rs), grid A* (src/src/pathfinding.rs,            *)
(* src/src/grid.rs), the automaton-cost A* and the penalty controller of   *)
(* examples/moma_gower, and the diamond network of                         *)
(* examples/moma_network_flow_manager.                                     *)
(*                                                                         *)
(* A Point is the pair <<x, y>>.  An f64 cost is modelled by a natural     *)
(* number (all sums of the model are exact in f64).                        *)
(***************************************************************************)
EXTENDS Integers, Sequences, FiniteSets, TLC

VARIABLES
    adj,        \* Graph.adj: node -> sequence of outgoing edges (DOMAIN = keys)
    source,     \* Graph.source
    sink,       \* Graph.sink
    pc,         \* "idle" | "ek" (inside edmonds_karp's loop) | "panic"
    max_flow,   \* edmonds_karp's local max_flow
    iters,      \* iterations of edmonds_karp's loop in the current call
    pre,        \* Graph.adj as it was when the last call on the graph started
    ret,        \* the last call on the graph: its name, arguments and result
    grid,       \* a_star's grid: Point -> "Blocked" | "Free"
    automaton,  \* a_star_moma_cost's automaton.state: Point -> cell value
    oracle,     \* cost_ring.residue: <<value, value>> -> cost
    weight,     \* structure_penalty_weight given to a_star_moma_cost, in halves
    start,      \* the search's start
    goal,       \* the search's goal
    frontier,   \* the BinaryHeap<Node> of the search, as the set of its nodes
    came_from,  \* HashMap<Point, Point>
    cost_so_far,\* HashMap<Point, cost>
    spc,        \* "off" | "search" (in the while let loop) | "done" (returned)
    result,     \* the Option<Vec<Point>> the search returned
    penalty,    \* dynamic_pathfinding's structure_penalty_weight, <<num, den>>
    penalty_before, \* its value when the last controller step started
    norm,       \* u2_norm_fft of the last controller step, <<num, den>>
    steps,      \* controller steps taken
    maze_path,  \* the path handed to path_to_complex_sequence_fft
    flow_sequence,    \* the values handed to values_to_complex_sequence_fft
    complex_sequence, \* the Vec<FftComplex<f64>> handed to calculate_u2_norm_fft
    gowers_norm,      \* the fourth power of what calculate_u2_norm_fft returned
    npc,        \* "off" | "path" | "values" (input given) | "mapped" | "done"
    hash_order, \* the order in which this run's HashMap iterates over its keys
    lpc,        \* the flow manager's main: "off" | "top" | "observe" | "reset" | "complete"
    step,       \* main's loop counter i
    record,     \* what the current step of main has printed
    maze,       \* generate_maze's grid
    maze_width, \* its width
    maze_height,\* its height
    stack,      \* generate_maze's stack of points
    mpc,        \* "off" | "carve" (in the while let loop) | "done" (returned)
    state_vector, \* QuantumCircuit.state_vector
    applied,    \* the gates applied to the circuit so far
    outcome,    \* what measure() returned
    conclusion, \* what main has concluded of the function
    qpc         \* "off" | "gates" | "measured" | "concluded"

flowVars == <<adj, source, sink, pc, max_flow, iters, pre, ret>>
searchVars == <<grid, automaton, oracle, weight, start, goal, frontier, came_from,
                cost_so_far, spc, result>>
ctlVars == <<penalty, penalty_before, norm, steps>>
normVars == <<maze_path, flow_sequence, complex_sequence, gowers_norm, npc>>
loopVars == <<hash_order, lpc, step, record>>
mazeVars == <<maze, maze_width, maze_height, stack, mpc>>
circuitVars == <<state_vector, applied, outcome, conclusion, qpc>>
vars == <<flowVars, searchVars, ctlVars, normVars, loopVars, mazeVars, circuitVars>>

-----------------------------------------------------------------------------
(* Bounds of the model *)

MaxEdges == 3      \* add_edge calls per graph in SpecFlow
MaxIters == 4      \* iterations of edmonds_karp's loop that are explored
MaxCost == 2       \* edge costs of the diamond network are 0..MaxCost
GridW == 3         \* width of the grids and automata that are searched
GridH == 2         \* their height
MaxBlocked == 2    \* Blocked cells of a grid
MaxVal == 1        \* cell values of an automaton are 0..MaxVal
MaxMarked == 2     \* cells of an automaton with a value other than 0
MaxSteps == 3      \* steps of the penalty controller
MaxHalf == 3       \* widths and heights of the mazes are 3, 5, ... 2 * MaxHalf + 1
MaxGates == 5      \* gates applied to a circuit before it is measured

Capacities == {1, 2}
Costs == {0, 1}
FlowNodes == {<<0, 1>>, <<1, 0>>, <<3, 1>>}

\* u64::MAX.  TLC's integers have 32 bits: the model's u64 is scaled to 30 bits,
\* so that U64_MAX + U64_MAX is still a TLC integer.
U64_MAX == 1073741823

-----------------------------------------------------------------------------
(* grid.rs: Point and its derived order *)

\* #[derive(Ord)] on Point {x, y}: lexicographic, x first.
PointLess(a, b) == a[1] < b[1] \/ (a[1] = b[1] /\ a[2] < b[2])

NoMap == [n \in {} |-> 0]

\* HashMap::insert
Put(m, k, v) == [n \in DOMAIN m \cup {k} |-> IF n = k THEN v ELSE m[n]]

Min(a, b) == IF a < b THEN a ELSE b

-----------------------------------------------------------------------------
(* network_graph.rs: Graph *)

Edge(to, capacity, cost, flow) ==
    [to |-> to, capacity |-> capacity, cost |-> cost, flow |-> flow]

add_node(g, node) == IF node \in DOMAIN g THEN g ELSE Put(g, node, <<>>)

\* An add_edge that puts the new edge before the edges there are.
add_edge_first(g, from, to, capacity, cost) ==
    LET g1 == add_node(add_node(g, from), to)
    IN  [g1 EXCEPT ![from] = <<Edge(to, capacity, cost, 0)>> \o @]

add_edge(g, from, to, capacity, cost) ==
    LET g1 == add_node(add_node(g, from), to)
    IN  [g1 EXCEPT ![from] = Append(@, Edge(to, capacity, cost, 0))]

get_edges(g, node) == IF node \in DOMAIN g THEN g[node] ELSE <<>>

\* A heap without the negation of the distance: the farthest entry first.
HeapBeforeNotNegated(e, f) == e[1] > f[1] \/ (e[1] = f[1] /\ PointLess(f[2], e[2]))

\* A heap that delivers, among entries of equal distance, the least Point first.
HeapBeforeLeastPoint(e, f) == e[1] < f[1] \/ (e[1] = f[1] /\ PointLess(e[2], f[2]))

\* BinaryHeap<(OrderedFloat(-dist), Point)>::pop: the greatest tuple, which is
\* the entry of least distance and, among those, of greatest Point.
HeapBefore(e, f) == e[1] < f[1] \/ (e[1] = f[1] /\ PointLess(f[2], e[2]))
PqTop(pq) == CHOOSE e \in pq : \A f \in pq \ {e} : HeapBefore(e, f)

\* The loop over the edges of u without the test of capacity > flow.
RECURSIVE RelaxFullEdges(_, _, _, _, _)
RelaxFullEdges(edges, i, cost, u, st) ==
    IF i > Len(edges) THEN st
    ELSE LET edge == edges[i]
             new_dist == cost + edge.cost
         IN  IF edge.to \notin DOMAIN st.dist \/ new_dist < st.dist[edge.to]
             THEN RelaxFullEdges(edges, i + 1, cost, u,
                        [dist   |-> Put(st.dist, edge.to, new_dist),
                         parent |-> Put(st.parent, edge.to, u),
                         pq     |-> st.pq \cup {<<new_dist, edge.to>>}])
             ELSE RelaxFullEdges(edges, i + 1, cost, u, st)

\* The for loop over the edges of u (lines 98-107), from edge i on.
RECURSIVE Relax(_, _, _, _, _)
Relax(edges, i, cost, u, st) ==
    IF i > Len(edges) THEN st
    ELSE LET edge == edges[i]
             new_dist == cost + edge.cost
         IN  IF /\ edge.capacity > edge.flow
                /\ (edge.to \notin DOMAIN st.dist \/ new_dist < st.dist[edge.to])
             THEN Relax(edges, i + 1, cost, u,
                        [dist   |-> Put(st.dist, edge.to, new_dist),
                         parent |-> Put(st.parent, edge.to, u),
                         pq     |-> st.pq \cup {<<new_dist, edge.to>>}])
             ELSE Relax(edges, i + 1, cost, u, st)

\* The while let loop (lines 88-109).
RECURSIVE DijkstraLoop(_, _, _)
DijkstraLoop(g, snk, st) ==
    IF st.pq = {} THEN [parent_map |-> st.parent, sink_found |-> snk \in DOMAIN st.dist]
    ELSE LET e == PqTop(st.pq)
             cost == e[1]
             u == e[2]
             popped == [st EXCEPT !.pq = @ \ {e}]
         IN  IF cost > st.dist[u] THEN DijkstraLoop(g, snk, popped)
             ELSE IF u = snk THEN [parent_map |-> st.parent, sink_found |-> TRUE]
             ELSE DijkstraLoop(g, snk, Relax(get_edges(g, u), 1, cost, u, popped))

find_cheapest_path_dijkstra(g, src, snk) ==
    DijkstraLoop(g, snk, [dist |-> Put(NoMap, src, 0), parent |-> NoMap,
                          pq |-> {<<0, src>>}])

\* The walk from the sink along parent_map to the source, as a path from the
\* source to the sink (lines 162-168).
RECURSIVE WalkBack(_, _, _, _)
WalkBack(parent_map, src, current, path) ==
    IF current = src THEN path
    ELSE WalkBack(parent_map, src, parent_map[current], <<parent_map[current]>> \o path)

\* .iter().find(|e| e.to == v): the index of the first edge to v, 0 for None.
FindEdge(edges, v) ==
    IF \E i \in 1..Len(edges) : edges[i].to = v
    THEN CHOOSE i \in 1..Len(edges) :
             edges[i].to = v /\ \A j \in 1..(i - 1) : edges[j].to # v
    ELSE 0

\* Bottleneck with the flow already on the edge forgotten.
RECURSIVE BottleneckOfCapacity(_, _, _, _)
BottleneckOfCapacity(g, path, i, path_flow) ==
    IF i >= Len(path) THEN path_flow
    ELSE LET edge == g[path[i]][FindEdge(g[path[i]], path[i + 1])]
         IN  BottleneckOfCapacity(g, path, i + 1, Min(path_flow, edge.capacity))

\* The bottleneck loop (lines 124-132 and 172-178).
RECURSIVE Bottleneck(_, _, _, _)
Bottleneck(g, path, i, path_flow) ==
    IF i >= Len(path) THEN path_flow
    ELSE LET edge == g[path[i]][FindEdge(g[path[i]], path[i + 1])]
         IN  Bottleneck(g, path, i + 1, Min(path_flow, edge.capacity - edge.flow))

\* Augment that stops one edge short of the sink.
RECURSIVE AugmentButLast(_, _, _, _)
AugmentButLast(g, path, i, path_flow) ==
    IF i + 1 >= Len(path) THEN g
    ELSE LET k == FindEdge(g[path[i]], path[i + 1])
             g1 == IF k = 0 THEN g
                   ELSE [g EXCEPT ![path[i]][k].flow = @ + path_flow]
         IN  AugmentButLast(g1, path, i + 1, path_flow)

\* The augmenting loop (lines 136-144 and 180-186).
RECURSIVE Augment(_, _, _, _)
Augment(g, path, i, path_flow) ==
    IF i >= Len(path) THEN g
    ELSE LET k == FindEdge(g[path[i]], path[i + 1])
             g1 == IF k = 0 THEN g
                   ELSE [g EXCEPT ![path[i]][k].flow = @ + path_flow]
         IN  Augment(g1, path, i + 1, path_flow)

\* max_flow = path_flow where the code has max_flow += path_flow.
AccumulateLast(total, path_flow) == path_flow

\* max_flow += path_flow (line 135), before the overflow check.
Accumulate(total, path_flow) == total + path_flow

\* route_cheapest_path: the graph after the call and the returned pair.
route_cheapest_path(g, src, snk) ==
    LET found == find_cheapest_path_dijkstra(g, src, snk)
    IN  IF ~found.sink_found
        THEN [adj |-> g, flow |-> 0, some |-> FALSE, path |-> <<>>]
        ELSE LET path == WalkBack(found.parent_map, src, snk, <<snk>>)
                 path_flow == Bottleneck(g, path, 1, U64_MAX)
             IN  [adj |-> Augment(g, path, 1, path_flow), flow |-> path_flow,
                  some |-> TRUE, path |-> path]

-----------------------------------------------------------------------------
(* Actions of the flow network *)

\* op: the call; arg: add_edge's arguments; flow, some, path: the returned
\* flow and Option<Vec<Point>> (inside edmonds_karp: the last augmentation).
Ret(op, arg, flow, some, path) ==
    [op |-> op, arg |-> arg, flow |-> flow, some |-> some, path |-> path]

NoRet == Ret("new", <<>>, 0, FALSE, <<>>)

\* Every edge of g, as <<from, index in from's sequence>>.
EdgeIds(g) == UNION {{<<n, i>> : i \in 1..Len(g[n])} : n \in DOMAIN g}

EdgeCount(g) == Cardinality(EdgeIds(g))

\* No search is under way.
SearchOff ==
    /\ grid = NoMap
    /\ automaton = NoMap
    /\ oracle = NoMap
    /\ weight = 0
    /\ start = <<0, 0>>
    /\ goal = <<0, 0>>
    /\ frontier = {}
    /\ came_from = NoMap
    /\ cost_so_far = NoMap
    /\ spc = "off"
    /\ result = [some |-> FALSE, path |-> <<>>]

\* No controller is running.
CtlOff ==
    /\ penalty = <<0, 1>>
    /\ penalty_before = <<0, 1>>
    /\ norm = <<0, 1>>
    /\ steps = 0

\* The fourth power of a norm: (p + q * sqrt(root)) / den.
Norm4(p, q, root, den) == [p |-> p, q |-> q, root |-> root, den |-> den]

\* A sequence of complex numbers whose angles are multiples of 2 pi / order.
Samples(order, samples) == [order |-> order, samples |-> samples]
NoSamples == Samples(4, <<>>)

\* No norm is being computed.
NormOff ==
    /\ maze_path = <<>>
    /\ flow_sequence = <<>>
    /\ complex_sequence = NoSamples
    /\ gowers_norm = Norm4(0, 0, 3, 1)
    /\ npc = "off"

NoRecord == [total_flow |-> 0, adjusted |-> FALSE, from |-> <<0, 0>>, to |-> <<0, 0>>, cost |-> 0]

\* The flow manager's main is not running.
LoopOff ==
    /\ hash_order = <<>>
    /\ lpc = "off"
    /\ step = 0
    /\ record = NoRecord

\* generate_maze is not called.
MazeOff ==
    /\ maze = NoMap
    /\ maze_width = 0
    /\ maze_height = 0
    /\ stack = <<>>
    /\ mpc = "off"

\* There is no circuit.
CircuitOff ==
    /\ state_vector = <<>>
    /\ applied = <<>>
    /\ outcome = 0
    /\ conclusion = "none"
    /\ qpc = "off"

\* Graph::new(source, sink), with the sink another node or the source itself.
InitFlow ==
    /\ adj = NoMap
    /\ source = <<0, 1>>
    /\ sink \in {<<0, 1>>, <<3, 1>>}
    /\ pc = "idle"
    /\ max_flow = 0
    /\ iters = 0
    /\ pre = NoMap
    /\ ret = NoRet
    /\ SearchOff
    /\ CtlOff
    /\ NormOff
    /\ LoopOff
    /\ MazeOff
    /\ CircuitOff

AddEdge ==
    /\ pc = "idle"
    /\ EdgeCount(adj) < MaxEdges
    /\ \E from \in FlowNodes, to \in FlowNodes, capacity \in Capacities, cost \in Costs :
           /\ from # to
           /\ adj' = add_edge(adj, from, to, capacity, cost)
           /\ ret' = Ret("add_edge", <<from, to, capacity, cost>>, 0, FALSE, <<>>)
    /\ pre' = adj
    /\ UNCHANGED <<source, sink, pc, max_flow, iters>>
    /\ UNCHANGED <<searchVars, ctlVars, normVars, loopVars, mazeVars, circuitVars>>

RouteCheapestPath ==
    /\ pc = "idle"
    /\ LET r == route_cheapest_path(adj, source, sink)
       IN  /\ adj' = r.adj
           /\ ret' = Ret("route", <<>>, r.flow, r.some, r.path)
    /\ pre' = adj
    /\ UNCHANGED <<source, sink, pc, max_flow, iters>>
    /\ UNCHANGED <<searchVars, ctlVars, normVars, loopVars, mazeVars, circuitVars>>

\* edmonds_karp is entered: let mut max_flow = 0 (line 114).
EdmondsKarpCall ==
    /\ pc = "idle"
    /\ pc' = "ek"
    /\ max_flow' = 0
    /\ iters' = 0
    /\ pre' = adj
    /\ ret' = Ret("call", <<>>, 0, FALSE, <<>>)
    /\ UNCHANGED <<adj, source, sink>>
    /\ UNCHANGED <<searchVars, ctlVars, normVars, loopVars, mazeVars, circuitVars>>

\* One iteration of the loop that finds a path (lines 115-145).  max_flow +=
\* path_flow overflows u64 only when the path has no edge (source == sink):
\* a debug build panics there, a release build wraps.
EdmondsKarpAugment ==
    /\ pc = "ek"
    /\ iters < MaxIters
    /\ LET r == route_cheapest_path(adj, source, sink)
       IN  /\ r.some
           /\ adj' = r.adj
           /\ IF Accumulate(max_flow, r.flow) > U64_MAX
              THEN \/ pc' = "panic" /\ max_flow' = max_flow
                   \/ pc' = "ek" /\ max_flow' = Accumulate(max_flow, r.flow) - (U64_MAX + 1)
              ELSE pc' = "ek" /\ max_flow' = Accumulate(max_flow, r.flow)
           /\ ret' = Ret("augment", <<>>, r.flow, TRUE, r.path)
    /\ iters' = iters + 1
    /\ UNCHANGED <<source, sink, pre>>
    /\ UNCHANGED <<searchVars, ctlVars, normVars, loopVars, mazeVars, circuitVars>>

\* The iteration that finds no path: break, and max_flow is returned.
EdmondsKarpReturn ==
    /\ pc = "ek"
    /\ ~find_cheapest_path_dijkstra(adj, source, sink).sink_found
    /\ pc' = "idle"
    /\ ret' = Ret("edmonds_karp", <<>>, max_flow, FALSE, <<>>)
    /\ UNCHANGED <<adj, source, sink, max_flow, iters, pre>>
    /\ UNCHANGED <<searchVars, ctlVars, normVars, loopVars, mazeVars, circuitVars>>

NextFlow ==
    \/ AddEdge
    \/ RouteCheapestPath
    \/ EdmondsKarpCall
    \/ EdmondsKarpAugment
    \/ EdmondsKarpReturn

SpecFlow == InitFlow /\ [][NextFlow]_vars

-----------------------------------------------------------------------------
(* examples/moma_network_flow_manager: the diamond network *)

DiamondSource == <<0, 1>>
DiamondSink == <<3, 1>>
node_a == <<1, 0>>
node_b == <<1, 2>>
node_c == <<2, 2>>

\* create_diamond_graph, with the five costs (all 1 in the source, raised later
\* by the control loop) given in the order of the add_edge calls.
create_diamond_graph(src, snk, costs) ==
    LET g1 == add_edge(NoMap, src, node_a, 10, costs[1])
        g2 == add_edge(g1, node_a, snk, 10, costs[2])
        g3 == add_edge(g2, src, node_b, 7, costs[3])
        g4 == add_edge(g3, node_b, node_c, 7, costs[4])
    IN  add_edge(g4, node_c, snk, 7, costs[5])

DiamondCosts == 0..MaxCost

InitDiamond ==
    /\ source = DiamondSource
    /\ sink = DiamondSink
    /\ \E costs \in [1..5 -> DiamondCosts] :
           adj = create_diamond_graph(DiamondSource, DiamondSink, costs)
    /\ pc = "idle"
    /\ max_flow = 0
    /\ iters = 0
    /\ pre = NoMap
    /\ ret = NoRet
    /\ SearchOff
    /\ CtlOff
    /\ NormOff
    /\ LoopOff
    /\ MazeOff
    /\ CircuitOff

NextNet ==
    \/ RouteCheapestPath
    \/ EdmondsKarpCall
    \/ EdmondsKarpAugment
    \/ EdmondsKarpReturn

SpecDiamond == InitDiamond /\ [][NextNet]_vars

-----------------------------------------------------------------------------
(* A network of four nodes in which two routes share the link from a to b *)

BridgeLinks ==
    <<  <<DiamondSource, node_a>>, <<node_a, node_b>>, <<node_b, DiamondSink>>,
        <<DiamondSource, node_b>>, <<node_a, DiamondSink>>  >>

\* The add_edge calls that build the network, link i with capacity caps[i] and
\* cost costs[i].
RECURSIVE BuildLinks(_, _, _, _, _)
BuildLinks(g, links, caps, costs, i) ==
    IF i > Len(links) THEN g
    ELSE BuildLinks(add_edge(g, links[i][1], links[i][2], caps[i], costs[i]),
                    links, caps, costs, i + 1)

InitBridge ==
    /\ source = DiamondSource
    /\ sink = DiamondSink
    /\ \E caps \in [1..Len(BridgeLinks) -> Capacities],
          costs \in [1..Len(BridgeLinks) -> Costs] :
           adj = BuildLinks(NoMap, BridgeLinks, caps, costs, 1)
    /\ pc = "idle"
    /\ max_flow = 0
    /\ iters = 0
    /\ pre = NoMap
    /\ ret = NoRet
    /\ SearchOff
    /\ CtlOff
    /\ NormOff
    /\ LoopOff
    /\ MazeOff
    /\ CircuitOff

SpecBridge == InitBridge /\ [][NextNet]_vars

-----------------------------------------------------------------------------
(* pathfinding.rs and grid.rs: a_star on a Grid *)

Abs(x) == IF x < 0 THEN 0 - x ELSE x

\* type Cost = u32, scaled to 8 bits: `as u32` keeps the low bits.
U32_RANGE == 256
as_u32(x) == x % U32_RANGE

Cells == (0..(GridW - 1)) \X (0..(GridH - 1))

manhattan_distance(a, b) == Abs(a[1] - b[1]) + Abs(a[2] - b[2])

Node(point, cost, heuristic) == [point |-> point, cost |-> cost, heuristic |-> heuristic]

\* Node::cmp without the reversal: the heap returns a node of greatest cost +
\* heuristic.
PriorityNotReversed(n) == 0 - (n.cost + n.heuristic)

\* Node::cmp compares cost + heuristic, reversed: BinaryHeap::pop returns a
\* node of least cost + heuristic, and the heap does not say which one.
Priority(n) == n.cost + n.heuristic
HeapTops(heap) == {n \in heap : \A m \in heap : Priority(n) <= Priority(m)}

\* [(-1, 0), (1, 0), (0, -1), (0, 1)]: Left, Right, Up, Down
Directions == << <<-1, 0>>, <<1, 0>>, <<0, -1>>, <<0, 1>> >>

InBounds(p) == p[1] >= 0 /\ p[1] < GridW /\ p[2] >= 0 /\ p[2] < GridH

\* The points the four directions lead to from point, in their order.
Steps(point) ==
    [i \in 1..Len(Directions) |->
        <<point[1] + Directions[i][1], point[2] + Directions[i][2]>>]

\* Neighbours that are taken whether Blocked or not.
neighbors_through_walls(g, point) == SelectSeq(Steps(point), InBounds)

\* Grid::neighbors
neighbors(g, point) ==
    LET Valid(n) == InBounds(n) /\ g[n] # "Blocked"
    IN  SelectSeq(Steps(point), Valid)

\* A walk back that pushes the start once more when it arrives there.
RECURSIVE ReconstructStartTwice(_, _, _, _)
ReconstructStartTwice(from, st, curr, path) ==
    IF curr = st THEN <<st>> \o path
    ELSE ReconstructStartTwice(from, st, from[curr], <<from[curr]>> \o path)

\* The walk along came_from from the goal back to the start, reversed.
RECURSIVE Reconstruct(_, _, _, _)
Reconstruct(from, st, curr, path) ==
    IF curr = st THEN path
    ELSE Reconstruct(from, st, from[curr], <<from[curr]>> \o path)

\* a_star's for loop over the neighbours of current (lines 75-88).
RECURSIVE AStarRelax(_, _, _, _, _)
AStarRelax(nbrs, i, current, gl, st) ==
    IF i > Len(nbrs) THEN st
    ELSE LET next_point == nbrs[i]
             new_cost == st.cost_so_far[current] + 1
         IN  IF next_point \notin DOMAIN st.cost_so_far
                \/ new_cost < st.cost_so_far[next_point]
             THEN AStarRelax(nbrs, i + 1, current, gl,
                      [cost_so_far |-> Put(st.cost_so_far, next_point, new_cost),
                       frontier |-> st.frontier \cup
                           {Node(next_point, new_cost,
                                 manhattan_distance(next_point, gl))},
                       came_from |-> Put(st.came_from, next_point, current)])
             ELSE AStarRelax(nbrs, i + 1, current, gl, st)

\* The state of a search that has pushed the start node (lines 55-60).
SearchStarted ==
    /\ frontier = {Node(start, 0, manhattan_distance(start, goal))}
    /\ came_from = NoMap
    /\ cost_so_far = Put(NoMap, start, 0)
    /\ spc = "search"
    /\ result = [some |-> FALSE, path |-> <<>>]

FlowOff ==
    /\ adj = NoMap
    /\ source = <<0, 0>>
    /\ sink = <<0, 0>>
    /\ pc = "idle"
    /\ max_flow = 0
    /\ iters = 0
    /\ pre = NoMap
    /\ ret = NoRet

\* a_star(grid, start, goal) is entered, for a grid with at most MaxBlocked
\* Blocked cells and a start and goal inside the grid.
InitAStar ==
    /\ FlowOff
    /\ grid \in [Cells -> {"Blocked", "Free"}]
    /\ Cardinality({c \in Cells : grid[c] = "Blocked"}) <= MaxBlocked
    /\ automaton = NoMap
    /\ oracle = NoMap
    /\ weight = 0
    /\ start \in Cells
    /\ goal \in Cells
    /\ SearchStarted
    /\ CtlOff
    /\ NormOff
    /\ LoopOff
    /\ MazeOff
    /\ CircuitOff

\* An iteration of the while let loop that pops a node other than the goal.
AStarExpand ==
    /\ spc = "search"
    /\ \E current \in HeapTops(frontier) :
           /\ current.point # goal
           /\ LET st == AStarRelax(neighbors(grid, current.point), 1, current.point, goal,
                                   [cost_so_far |-> cost_so_far,
                                    frontier |-> frontier \ {current},
                                    came_from |-> came_from])
              IN  /\ frontier' = st.frontier
                  /\ came_from' = st.came_from
                  /\ cost_so_far' = st.cost_so_far
    /\ UNCHANGED <<grid, automaton, oracle, weight, start, goal, spc, result>>
    /\ UNCHANGED <<flowVars, ctlVars, normVars, loopVars, mazeVars, circuitVars>>

\* The iteration that pops the goal: the path is rebuilt and returned.
SearchFound ==
    /\ spc = "search"
    /\ \E current \in HeapTops(frontier) :
           /\ current.point = goal
           /\ frontier' = frontier \ {current}
    /\ result' = [some |-> TRUE, path |-> Reconstruct(came_from, start, goal, <<goal>>)]
    /\ spc' = "done"
    /\ UNCHANGED <<grid, automaton, oracle, weight, start, goal, came_from, cost_so_far>>
    /\ UNCHANGED <<flowVars, ctlVars, normVars, loopVars, mazeVars, circuitVars>>

\* The frontier is empty: None is returned.
SearchExhausted ==
    /\ spc = "search"
    /\ frontier = {}
    /\ result' = [some |-> FALSE, path |-> <<>>]
    /\ spc' = "done"
    /\ UNCHANGED <<grid, automaton, oracle, weight, start, goal, frontier, came_from,
                   cost_so_far>>
    /\ UNCHANGED <<flowVars, ctlVars, normVars, loopVars, mazeVars, circuitVars>>

NextAStar == AStarExpand \/ SearchFound \/ SearchExhausted

SpecAStar == InitAStar /\ [][NextAStar]_vars

\* a_star is a sequential loop: while an iteration can be taken, one is.
SpecAStarFair == SpecAStar /\ WF_vars(NextAStar)

-----------------------------------------------------------------------------
(* examples/moma_gower: a_star_moma_cost *)

Vals == 0..MaxVal

\* cost_ring.residue(current_val, next_val) belongs to the moma crate: the
\* search may be given any of these cost tables.
Oracles ==
    { [p \in Vals \X Vals |-> p[2]],
      [p \in Vals \X Vals |-> Abs(p[1] - p[2])] }

\* structure_penalty_weight is an f64 >= 0; the model counts it in halves:
\* 0, 0.5, 2.0 and a weight as large as the range of a u32.
PenaltyWeights == {0, 1, 4, 2 * U32_RANGE}

\* structure_penalty as u64: the fraction is dropped.
as_u64(halves) == halves \div 2

\* The penalty of line 111-124: the weight when the move from current to
\* next_point repeats the move from came_from[current] to current.
structure_penalty(from, current, next_point, w) ==
    IF current \in DOMAIN from
       /\ current[1] - from[current][1] = next_point[1] - current[1]
       /\ current[2] - from[current][2] = next_point[2] - current[2]
    THEN w ELSE 0

\* The neighbours of a_star_moma_cost (lines 86-103): every cell in bounds.
moma_neighbors(point) == SelectSeq(Steps(point), InBounds)

\* a_star_moma_cost's for loop over the neighbours of current (lines 105-145).
RECURSIVE MomaRelax(_, _, _, _, _)
MomaRelax(nbrs, i, current, gl, st) ==
    IF i > Len(nbrs) THEN st
    ELSE LET next_point == nbrs[i]
             move_cost == oracle[<<automaton[current], automaton[next_point]>>] + 1
             new_cost == st.cost_so_far[current] + move_cost
                 + as_u64(structure_penalty(st.came_from, current, next_point, weight))
         IN  IF next_point \notin DOMAIN st.cost_so_far
                \/ new_cost < st.cost_so_far[next_point]
             THEN MomaRelax(nbrs, i + 1, current, gl,
                      [cost_so_far |-> Put(st.cost_so_far, next_point, new_cost),
                       frontier |-> st.frontier \cup
                           {Node(next_point, as_u32(new_cost),
                                 manhattan_distance(next_point, gl))},
                       came_from |-> Put(st.came_from, next_point, current)])
             ELSE MomaRelax(nbrs, i + 1, current, gl, st)

\* a_star_moma_cost(automaton, cost_ring, start, goal, weight) is entered.
InitMoma ==
    /\ FlowOff
    /\ grid = NoMap
    /\ automaton \in [Cells -> Vals]
    /\ Cardinality({c \in Cells : automaton[c] # 0}) <= MaxMarked
    /\ oracle \in Oracles
    /\ weight \in PenaltyWeights
    /\ start \in Cells
    /\ goal \in Cells
    /\ SearchStarted
    /\ CtlOff
    /\ NormOff
    /\ LoopOff
    /\ MazeOff
    /\ CircuitOff

\* An iteration of the while let loop that pops a node other than the goal.
MomaExpand ==
    /\ spc = "search"
    /\ \E current \in HeapTops(frontier) :
           /\ current.point # goal
           /\ LET st == MomaRelax(moma_neighbors(current.point), 1, current.point, goal,
                                  [cost_so_far |-> cost_so_far,
                                   frontier |-> frontier \ {current},
                                   came_from |-> came_from])
              IN  /\ frontier' = st.frontier
                  /\ came_from' = st.came_from
                  /\ cost_so_far' = st.cost_so_far
    /\ UNCHANGED <<grid, automaton, oracle, weight, start, goal, spc, result>>
    /\ UNCHANGED <<flowVars, ctlVars, normVars, loopVars, mazeVars, circuitVars>>

\* Every cell of the automaton can be entered, so the goal is always popped
\* before the heap empties and the None of line 147 is never returned.
NextMoma == MomaExpand \/ SearchFound

SpecMoma == InitMoma /\ [][NextMoma]_vars

-----------------------------------------------------------------------------
(* examples/moma_gower: the penalty controller of dynamic_pathfinding.  An f64
   is modelled by the fraction <<num, den>> with den > 0, in lowest terms. *)

RECURSIVE Gcd(_, _)
Gcd(a, b) == IF b = 0 THEN a ELSE Gcd(b, a % b)

Frac(n, d) == LET g == Gcd(Abs(n), d) IN IF n = 0 THEN <<0, 1>> ELSE <<n \div g, d \div g>>
FracAdd(a, b) == Frac(a[1] * b[2] + b[1] * a[2], a[2] * b[2])
FracSub(a, b) == Frac(a[1] * b[2] - b[1] * a[2], a[2] * b[2])
FracMul(a, b) == Frac(a[1] * b[1], a[2] * b[2])
FracLess(a, b) == a[1] * b[2] < b[1] * a[2]

target_norm == <<1, 4>>           \* 0.25
proportional_gain == <<5, 1>>     \* 5.0
decay_rate == <<1, 100>>          \* 0.01
norm_threshold == <<1, 10000>>    \* 0.0001

\* The norms a step may measure: 0, 1/16384, 1/8, 1/4, 1/2, 3/4 and 1.
Norms == {<<0, 1>>, <<1, 16384>>, <<1, 8>>, <<1, 4>>, <<1, 2>>, <<3, 4>>, <<1, 1>>}

\* A controller that never resets the weight.
keep_if_too_small(w, u2_norm_fft) == w

\* if u2_norm_fft < 0.0001 { structure_penalty_weight = 0.0 } (lines 244-247)
reset_if_too_small(w, u2_norm_fft) ==
    IF FracLess(u2_norm_fft, norm_threshold) THEN <<0, 1>> ELSE w

\* A controller without the clamp.
no_max_0(w) == w

\* structure_penalty_weight.max(0.0) (line 269)
max_0(w) == IF FracLess(w, <<0, 1>>) THEN <<0, 1>> ELSE w

\* Lines 251-266: the decayed weight plus the proportional adjustment.
decay_and_adjust(w, u2_norm_fft) ==
    LET error == FracSub(u2_norm_fft, target_norm)
        adjustment == FracMul(error, proportional_gain)
    IN  FracAdd(FracMul(w, FracSub(<<1, 1>>, decay_rate)), adjustment)

\* let mut structure_penalty_weight: f64 = 0.0 (line 195)
InitCtl ==
    /\ FlowOff
    /\ SearchOff
    /\ CtlOff
    /\ NormOff
    /\ LoopOff
    /\ MazeOff
    /\ CircuitOff

\* One pass of the event loop's update (lines 243-269) with a measured norm.
ControllerStep ==
    /\ steps < MaxSteps
    /\ \E u2_norm_fft \in Norms :
           /\ norm' = u2_norm_fft
           /\ penalty' = max_0(decay_and_adjust(
                             reset_if_too_small(penalty, u2_norm_fft), u2_norm_fft))
    /\ penalty_before' = penalty
    /\ steps' = steps + 1
    /\ UNCHANGED <<flowVars, searchVars, normVars, loopVars, mazeVars, circuitVars>>

NextCtl == ControllerStep

SpecCtl == InitCtl /\ [][NextCtl]_vars

-----------------------------------------------------------------------------
(* The complex samples and calculate_u2_norm_fft (examples/moma_gower and
   examples/moma_network_flow_manager).  With z = cos(2 pi / N) + i sin(2 pi / N),
   a complex number is the sequence c of length N that stands for the sum of
   c[m + 1] * z^m: the samples, the twiddle factors of a transform of a length
   that divides N, and all their sums and products are of this form, so the
   arithmetic of the model is exact.  One number has several such sequences
   (1 + z^4 + z^8 is 0 for N = 12): Real4 gives the same for all of them. *)

RingZero(N) == [m \in 1..N |-> 0]

\* FftComplex::new(angle.cos(), angle.sin()) for angle = 2 pi e / N
RingUnit(N, e) == [m \in 1..N |-> IF m - 1 = e % N THEN 1 ELSE 0]

RingAdd(N, x, y) == [m \in 1..N |-> x[m] + y[m]]

\* x * z^r
RingRot(N, x, r) == [m \in 1..N |-> x[((m - 1 + N * N - r) % N) + 1]]

\* The complex conjugate.
RingConj(N, x) == [m \in 1..N |-> x[((N + 1 - m) % N) + 1]]

\* The coefficient of z^m in x * y, summed from the z^a of x on.
RECURSIVE RingMulAt(_, _, _, _, _)
RingMulAt(N, x, y, m, a) ==
    IF a = N THEN 0
    ELSE x[a + 1] * y[((m + N - a) % N) + 1] + RingMulAt(N, x, y, m, a + 1)

\* The coefficients of x * y from that of z^m on.
RECURSIVE RingMulFrom(_, _, _, _)
RingMulFrom(N, x, y, m) ==
    IF m = N THEN <<>> ELSE <<RingMulAt(N, x, y, m, 0)>> \o RingMulFrom(N, x, y, m + 1)

RingMul(N, x, y) == RingMulFrom(N, x, y, 0)

\* 4 cos(2 pi m / N) as <<p, q>> for p + q * sqrt(RootOf(N)), for N = 4, 10
\* and 12.
RootOf(N) == IF N = 10 THEN 5 ELSE 3

Cos4(N, m) ==
    IF N = 4 THEN <<  <<4, 0>>, <<0, 0>>, <<-4, 0>>, <<0, 0>>  >>[m + 1]
    ELSE IF N = 10
    THEN <<  <<4, 0>>, <<1, 1>>, <<-1, 1>>, <<1, -1>>, <<-1, -1>>, <<-4, 0>>,
             <<-1, -1>>, <<1, -1>>, <<-1, 1>>, <<1, 1>>  >>[m + 1]
    ELSE <<  <<4, 0>>, <<0, 2>>, <<2, 0>>, <<0, 0>>, <<-2, 0>>, <<0, -2>>, <<-4, 0>>,
             <<0, -2>>, <<-2, 0>>, <<0, 0>>, <<2, 0>>, <<0, 2>>  >>[m + 1]

\* Four times the real part of x is p + q * sqrt(RootOf(N)): p for i = 1 and
\* q for i = 2, summed from z^m on.
RECURSIVE Real4(_, _, _, _)
Real4(N, x, m, i) ==
    IF m = N THEN 0 ELSE x[m + 1] * Cos4(N, m)[i] + Real4(N, x, m + 1, i)

\* c.norm_sqr(): |c|^2
norm_sqr(N, c) == RingMul(N, c, RingConj(N, c))

\* .powi(2)
powi2(N, c) == RingMul(N, c, c)

\* Coefficient k of the forward transform of the samples xs from sample j on:
\* the sum of xs[j] * exp(-2 pi i (j - 1) k / n).
RECURSIVE FftCoefficient(_, _, _, _)
FftCoefficient(N, xs, k, j) ==
    IF j > Len(xs) THEN RingZero(N)
    ELSE RingAdd(N, RingRot(N, xs[j], ((N \div Len(xs)) * (j - 1) * k) % N),
                 FftCoefficient(N, xs, k, j + 1))

\* A process that leaves the samples as they are.
no_transform(N, xs) == xs

\* fft.process(sequence)
fft_process(N, xs) == [k \in 1..Len(xs) |-> FftCoefficient(N, xs, k - 1, 1)]

\* sequence.iter().map(|c| c.norm_sqr().powi(2)).sum()
RECURSIVE sum_of_magnitudes_pow4(_, _, _)
sum_of_magnitudes_pow4(N, xs, k) ==
    IF k > Len(xs) THEN RingZero(N)
    ELSE RingAdd(N, powi2(N, norm_sqr(N, xs[k])), sum_of_magnitudes_pow4(N, xs, k + 1))

\* The fraction (p + q * sqrt(root)) / den in lowest terms.
Norm4Of(p, q, root, den) ==
    LET g == Gcd(Gcd(Abs(p), Abs(q)), den)
    IN  Norm4(p \div g, q \div g, root, den \div g)

\* A norm that is 0 for fewer than two samples.
norm_zero_below_two(sequence) ==
    LET n == Len(sequence.samples)
        N == sequence.order
        sum == sum_of_magnitudes_pow4(N, fft_process(N, sequence.samples), 1)
    IN  IF n <= 1 THEN Norm4(0, 0, RootOf(N), 1)
        ELSE Norm4Of(Real4(N, sum, 0, 1), Real4(N, sum, 0, 2), RootOf(N),
                     4 * n * n * n * n)

\* A norm whose sum is divided by n^3.
norm_over_n_cubed(sequence) ==
    LET n == Len(sequence.samples)
        N == sequence.order
        sum == sum_of_magnitudes_pow4(N, fft_process(N, sequence.samples), 1)
    IN  IF n = 0 THEN Norm4(0, 0, RootOf(N), 1)
        ELSE Norm4Of(Real4(N, sum, 0, 1), Real4(N, sum, 0, 2), RootOf(N),
                     4 * n * n * n)

\* calculate_u2_norm_fft(sequence), as the fourth power of the f64 it returns:
\* the sum of the |c|^4 of the transform divided by n^4.
calculate_u2_norm_fft(sequence) ==
    LET n == Len(sequence.samples)
        N == sequence.order
        sum == sum_of_magnitudes_pow4(N, fft_process(N, sequence.samples), 1)
    IN  IF n = 0 THEN Norm4(0, 0, RootOf(N), 1)
        ELSE Norm4Of(Real4(N, sum, 0, 1), Real4(N, sum, 0, 2), RootOf(N),
                     4 * n * n * n * n)

\* The angles of the model are multiples of 2 pi / N, and the length of a
\* transform divides N: N is 10 for the five flows of the diamond, 12 for
\* three samples and 4 for one, two or four.
AngleOrder(n) == IF n = 5 THEN 10 ELSE IF n = 3 THEN 12 ELSE 4

\* The angle measured from the y axis.
atan2_from_y(dy, dx) ==
    IF dy = 1 THEN 0 ELSE IF dx = 1 THEN 1 ELSE IF dy = 0 - 1 THEN 2 ELSE 3

\* (dy as f64).atan2(dx as f64) for a step to a 4-adjacent cell, in quarters
\* of a full turn.
atan2(dy, dx) ==
    IF dx = 1 THEN 0 ELSE IF dy = 1 THEN 1 ELSE IF dx = 0 - 1 THEN 2 ELSE 3

\* path_to_complex_sequence_fft(path)
path_to_complex_sequence_fft(path) ==
    LET N == AngleOrder(Len(path) - 1)
    IN  IF Len(path) < 2 THEN Samples(4, <<>>)
        ELSE Samples(N, [p \in 1..(Len(path) - 1) |->
                            RingUnit(N, (N \div 4) * atan2(path[p + 1][2] - path[p][2],
                                                          path[p + 1][1] - path[p][1]))])

\* values.iter().copied().fold(f64::NEG_INFINITY, f64::max), -1 standing for
\* NEG_INFINITY (the values are flows, none is negative).
RECURSIVE fold_max(_, _, _)
fold_max(values, i, acc) ==
    IF i > Len(values) THEN acc
    ELSE fold_max(values, i + 1, IF values[i] > acc THEN values[i] ELSE acc)

\* A mapping that sends every value to angle 0 when the maximum is 0.
values_to_unit_circle(values) ==
    LET max_val == fold_max(values, 1, 0 - 1)
        N == AngleOrder(Len(values))
    IN  Samples(N, [i \in 1..Len(values) |->
                       RingUnit(N, IF max_val = 0 THEN 0 ELSE (N * values[i]) \div max_val)])

\* values_to_complex_sequence_fft(values)
values_to_complex_sequence_fft(values) ==
    LET max_val == fold_max(values, 1, 0 - 1)
        N == AngleOrder(Len(values))
    IN  IF max_val = 0
        THEN Samples(N, [i \in 1..Len(values) |-> RingZero(N)])
        ELSE Samples(N, [i \in 1..Len(values) |->
                            RingUnit(N, (N * values[i]) \div max_val)])

\* The paths of the model: from (0, 0), each step to a 4-adjacent cell, no
\* cell twice, as a_star_moma_cost returns them.
UnitSteps == {<<1, 0>>, <<0, 1>>, <<0 - 1, 0>>, <<0, 0 - 1>>}

RECURSIVE Walks(_)
Walks(points) ==
    IF points = 1 THEN {<< <<0, 0>> >>}
    ELSE {Append(w, <<w[Len(w)][1] + d[1], w[Len(w)][2] + d[2]>>) :
            <<w, d>> \in {wd \in Walks(points - 1) \X UnitSteps :
                \A k \in 1..Len(wd[1]) :
                    wd[1][k] # <<wd[1][Len(wd[1])][1] + wd[2][1],
                                 wd[1][Len(wd[1])][2] + wd[2][2]>>}}

\* The numbers of points of the paths: 0 for no path, and up to 4 samples.
PathLengths == {0, 1, 2, 3, 4, 5}

\* The flow values and the lengths of the value sequences.
FlowValues == {0, 3, 6, 12}
SequenceLengths == {0, 1, 2, 3, 4}

\* path_to_complex_sequence_fft or values_to_complex_sequence_fft is about to
\* be called.
InitNorm ==
    /\ FlowOff
    /\ SearchOff
    /\ CtlOff
    /\ LoopOff
    /\ MazeOff
    /\ CircuitOff
    /\ complex_sequence = NoSamples
    /\ gowers_norm = Norm4(0, 0, 3, 1)
    /\ \/ /\ npc = "path"
          /\ \E points \in PathLengths :
                 maze_path \in (IF points = 0 THEN {<<>>} ELSE Walks(points))
          /\ flow_sequence = <<>>
       \/ /\ npc = "values"
          /\ \E n \in SequenceLengths : flow_sequence \in [1..n -> FlowValues]
          /\ maze_path = <<>>

\* let mut p_to_complexfft = path_to_complex_sequence_fft(&maze_path)
PathToComplex ==
    /\ npc = "path"
    /\ complex_sequence' = path_to_complex_sequence_fft(maze_path)
    /\ npc' = "mapped"
    /\ UNCHANGED <<maze_path, flow_sequence, gowers_norm>>
    /\ UNCHANGED <<flowVars, searchVars, ctlVars, loopVars, mazeVars, circuitVars>>

\* let mut complex_sequence = values_to_complex_sequence_fft(&flow_sequence)
ValuesToComplex ==
    /\ npc = "values"
    /\ complex_sequence' = values_to_complex_sequence_fft(flow_sequence)
    /\ npc' = "mapped"
    /\ UNCHANGED <<maze_path, flow_sequence, gowers_norm>>
    /\ UNCHANGED <<flowVars, searchVars, ctlVars, loopVars, mazeVars, circuitVars>>

\* calculate_u2_norm_fft(&mut sequence): the sequence is transformed in place.
CalculateNorm ==
    /\ npc = "mapped"
    /\ gowers_norm' = calculate_u2_norm_fft(complex_sequence)
    /\ complex_sequence' = Samples(complex_sequence.order,
                                   fft_process(complex_sequence.order,
                                               complex_sequence.samples))
    /\ npc' = "done"
    /\ UNCHANGED <<maze_path, flow_sequence>>
    /\ UNCHANGED <<flowVars, searchVars, ctlVars, loopVars, mazeVars, circuitVars>>

NextNorm == PathToComplex \/ ValuesToComplex \/ CalculateNorm

SpecNorm == InitNorm /\ [][NextNorm]_vars

-----------------------------------------------------------------------------
(* examples/moma_network_flow_manager: main *)

SIMULATION_STEPS == 10
COST_ADJUSTMENT_FACTOR == 5
TARGET_GOWERS_NORM == <<1, 2>>

\* edmonds_karp as one call: the graph it leaves and the flow it returns
\* (the diamond's source is not its sink, and its flow is far from u64::MAX).
RECURSIVE edmonds_karp(_, _, _, _)
edmonds_karp(g, src, snk, total) ==
    IF ~find_cheapest_path_dijkstra(g, src, snk).sink_found
    THEN [adj |-> g, flow |-> total]
    ELSE edmonds_karp(route_cheapest_path(g, src, snk).adj, src, snk,
                      Accumulate(total, route_cheapest_path(g, src, snk).flow))

\* The keys of a BTreeMap: the nodes in ascending order.
RECURSIVE SortedNodes(_)
SortedNodes(nodes) ==
    IF nodes = {} THEN <<>>
    ELSE LET least == CHOOSE n \in nodes : \A o \in nodes \ {n} : PointLess(n, o)
         IN  <<least>> \o SortedNodes(nodes \ {least})

\* sorted_edges.sort_by_key(|e| (e.to.x, e.to.y)): a stable sort.
RECURSIVE sort_by_to(_)
sort_by_to(edges) ==
    IF edges = <<>> THEN <<>>
    ELSE LET first == CHOOSE i \in 1..Len(edges) :
                 /\ \A j \in 1..Len(edges) : ~PointLess(edges[j].to, edges[i].to)
                 /\ \A j \in 1..(i - 1) : edges[j].to # edges[i].to
         IN  <<edges[first]>> \o
             sort_by_to(SubSeq(edges, 1, first - 1) \o SubSeq(edges, first + 1, Len(edges)))

RECURSIVE FlowsOf(_, _)
FlowsOf(edges, i) ==
    IF i > Len(edges) THEN <<>> ELSE <<edges[i].flow>> \o FlowsOf(edges, i + 1)

\* flow_to_sequence(graph), from the i-th node of the sorted keys on.
RECURSIVE FlowsFrom(_, _, _)
FlowsFrom(g, nodes, i) ==
    IF i > Len(nodes) THEN <<>>
    ELSE FlowsOf(sort_by_to(g[nodes[i]]), 1) \o FlowsFrom(g, nodes, i + 1)

flow_to_sequence(g) == FlowsFrom(g, SortedNodes(DOMAIN g), 1)

\* a + b * sqrt(root) > 0
PositiveSurd(a, b, root) ==
    \/ a > 0 /\ b >= 0
    \/ a >= 0 /\ b > 0
    \/ a > 0 /\ b < 0 /\ a * a > b * b * root
    \/ a < 0 /\ b > 0 /\ b * b * root > a * a

\* error > 0.0 for error = gowers_norm - TARGET_GOWERS_NORM: both sides of
\* gowers_norm > target are raised to the fourth power.
error_positive(norm4, target) ==
    LET t4 == target[1] * target[1] * target[1] * target[1]
        d4 == target[2] * target[2] * target[2] * target[2]
    IN  PositiveSurd(norm4.p * d4 - norm4.den * t4, norm4.q * d4, norm4.root)

\* The inner loop of lines 76-82 over the edges of from_node.
RECURSIVE BusiestOf(_, _, _, _)
BusiestOf(edges, i, from_node, best) ==
    IF i > Len(edges) THEN best
    ELSE BusiestOf(edges, i + 1, from_node,
                   IF edges[i].flow > best.max_flow_on_edge
                   THEN [from |-> from_node, to |-> edges[i].to,
                         max_flow_on_edge |-> edges[i].flow]
                   ELSE best)

\* for (from_node, edges) in &graph.adj (lines 75-83), the keys taken in the
\* order of the hash map.
RECURSIVE BusiestFrom(_, _, _, _)
BusiestFrom(g, order, i, best) ==
    IF i > Len(order) THEN best
    ELSE BusiestFrom(g, order, i + 1, BusiestOf(g[order[i]], 1, order[i], best))

\* A choice that takes an edge with the least flow above 0.
least_busy_edge(g, src, order) ==
    LET ids == {id \in EdgeIds(g) : g[id[1]][id[2]].flow > 0}
    IN  IF ids = {} THEN [from |-> src, to |-> src, max_flow_on_edge |-> 0]
        ELSE LET id == CHOOSE id \in ids :
                           \A o \in ids : g[id[1]][id[2]].flow <= g[o[1]][o[2]].flow
             IN  [from |-> id[1], to |-> g[id[1]][id[2]].to,
                  max_flow_on_edge |-> g[id[1]][id[2]].flow]

\* Lines 71-83: busiest_edge_from, busiest_edge_to and max_flow_on_edge.
busiest_edge(g, src, order) ==
    BusiestFrom(g, order, 1, [from |-> src, to |-> src, max_flow_on_edge |-> 0])

\* Lines 86-90: the cost of the first edge from..to is raised, if there is one.
raise_cost(g, from, to) ==
    LET i == FindEdge(g[from], to)
    IN  IF i = 0 THEN g
        ELSE [g EXCEPT ![from][i].cost = @ + COST_ADJUSTMENT_FACTOR]

\* A reset that leaves the flows as they are.
keep_flow(g) == g

\* Lines 96-100: edge.flow = 0 for every edge.
reset_flow(g) == [n \in DOMAIN g |-> [i \in 1..Len(g[n]) |-> [g[n][i] EXCEPT !.flow = 0]]]

\* The orders in which a hash map may iterate over the keys.
HashOrders(keys) ==
    {o \in [1..Cardinality(keys) -> keys] :
        \A i, j \in 1..Cardinality(keys) : i # j => o[i] # o[j]}

\* main has built the diamond graph (lines 43-45); the hash map's order of
\* iteration is that of this run.
InitLoop ==
    /\ adj = create_diamond_graph(DiamondSource, DiamondSink, <<1, 1, 1, 1, 1>>)
    /\ source = DiamondSource
    /\ sink = DiamondSink
    /\ pc = "idle"
    /\ max_flow = 0
    /\ iters = 0
    /\ pre = NoMap
    /\ ret = NoRet
    /\ SearchOff
    /\ CtlOff
    /\ NormOff
    /\ MazeOff
    /\ CircuitOff
    /\ hash_order \in HashOrders(DOMAIN adj)
    /\ lpc = "top"
    /\ step = 0
    /\ record = NoRecord

\* let total_flow = graph.edmonds_karp() (line 51)
LoopMaxFlow ==
    /\ lpc = "top"
    /\ step < SIMULATION_STEPS
    /\ \E r \in {edmonds_karp(adj, source, sink, 0)} :
           /\ adj' = r.adj
           /\ ret' = Ret("edmonds_karp", <<>>, r.flow, FALSE, <<>>)
           /\ record' = [NoRecord EXCEPT !.total_flow = r.flow]
    /\ pre' = adj
    /\ lpc' = "observe"
    /\ UNCHANGED <<source, sink, pc, max_flow, iters>>
    /\ UNCHANGED <<searchVars, ctlVars, normVars, hash_order, step, mazeVars, circuitVars>>

\* Lines 55-93: the flows are measured and, when the norm is above the
\* target, the cost of the busiest edge is raised.
LoopAdjust ==
    /\ lpc = "observe"
    /\ flow_sequence' = flow_to_sequence(adj)
    /\ \E transformed \in {fft_process(AngleOrder(Len(flow_sequence')),
                               values_to_complex_sequence_fft(flow_sequence').samples)} :
           complex_sequence' = Samples(AngleOrder(Len(flow_sequence')), transformed)
    /\ gowers_norm' = calculate_u2_norm_fft(values_to_complex_sequence_fft(flow_sequence'))
    /\ LET busiest == busiest_edge(adj, source, hash_order)
       IN  IF error_positive(gowers_norm', TARGET_GOWERS_NORM)
           THEN /\ adj' = raise_cost(adj, busiest.from, busiest.to)
                /\ record' = [record EXCEPT
                       !.adjusted = FindEdge(adj[busiest.from], busiest.to) # 0,
                       !.from = busiest.from, !.to = busiest.to,
                       !.cost = IF FindEdge(adj[busiest.from], busiest.to) = 0 THEN 0
                                ELSE adj'[busiest.from][FindEdge(adj[busiest.from],
                                                                 busiest.to)].cost]
           ELSE /\ adj' = adj
                /\ record' = record
    /\ pre' = adj
    /\ ret' = Ret("adjust", <<>>, 0, FALSE, <<>>)
    /\ lpc' = "reset"
    /\ UNCHANGED <<source, sink, pc, max_flow, iters>>
    /\ UNCHANGED <<searchVars, ctlVars, maze_path, npc, hash_order, step>>
    /\ UNCHANGED <<mazeVars, circuitVars>>

\* Lines 96-100 and the end of the loop body.
LoopReset ==
    /\ lpc = "reset"
    /\ adj' = reset_flow(adj)
    /\ pre' = adj
    /\ ret' = Ret("reset", <<>>, 0, FALSE, <<>>)
    /\ step' = step + 1
    /\ lpc' = IF step + 1 = SIMULATION_STEPS THEN "complete" ELSE "top"
    /\ UNCHANGED <<source, sink, pc, max_flow, iters>>
    /\ UNCHANGED <<searchVars, ctlVars, normVars, hash_order, record, mazeVars, circuitVars>>

NextLoop == LoopMaxFlow \/ LoopAdjust \/ LoopReset

SpecLoop == InitLoop /\ [][NextLoop]_vars

-----------------------------------------------------------------------------
(* maze.rs: generate_maze *)

\* The odd widths and heights from 3 on (line 18 asserts that both are odd).
MazeSides == {2 * k + 1 : k \in 1..MaxHalf}

\* directions (line 30), in any order after the shuffle.
TwoSteps == {<<0 - 2, 0>>, <<2, 0>>, <<0, 0 - 2>>, <<0, 2>>}

\* The tests of lines 38 and 40 for the cell two steps from current.
CanCarve(g, w, h, current, d) ==
    LET nx == current[1] + d[1]
        ny == current[2] + d[2]
    IN  /\ nx > 0 /\ nx < w - 1 /\ ny > 0 /\ ny < h - 1
        /\ g[<<nx, ny>>] = "Blocked"

\* A move that frees the new cell and leaves the wall between.
carve_without_wall(g, current, d) ==
    [g EXCEPT ![<<current[1] + d[1], current[2] + d[2]>>] = "Free"]

\* Lines 42-45: the new cell and the wall between are set Free.
carve(g, current, d) ==
    [g EXCEPT ![<<current[1] + d[1], current[2] + d[2]>>] = "Free",
              ![<<current[1] + d[1] \div 2, current[2] + d[2] \div 2>>] = "Free"]

\* generate_maze(width, height) has set up its grid and pushed (1, 1)
\* (lines 18-27).
InitMaze ==
    /\ FlowOff
    /\ SearchOff
    /\ CtlOff
    /\ NormOff
    /\ LoopOff
    /\ CircuitOff
    /\ maze_width \in MazeSides
    /\ maze_height \in MazeSides
    /\ maze = [p \in (0..(maze_width - 1)) \X (0..(maze_height - 1)) |->
                  IF p = <<1, 1>> THEN "Free" ELSE "Blocked"]
    /\ stack = << <<1, 1>> >>
    /\ mpc = "carve"

\* An iteration that moves: the first direction of the shuffled array that
\* passes the tests may be any of those that pass them.
MazeCarve ==
    /\ mpc = "carve"
    /\ stack # <<>>
    /\ \E d \in TwoSteps :
           /\ CanCarve(maze, maze_width, maze_height, stack[Len(stack)], d)
           /\ maze' = carve(maze, stack[Len(stack)], d)
           /\ stack' = Append(stack, <<stack[Len(stack)][1] + d[1],
                                       stack[Len(stack)][2] + d[2]>>)
    /\ UNCHANGED <<maze_width, maze_height, mpc>>
    /\ UNCHANGED <<flowVars, searchVars, ctlVars, normVars, loopVars, circuitVars>>

\* An iteration that does not move: stack.pop() (lines 54-56).
MazeBacktrack ==
    /\ mpc = "carve"
    /\ stack # <<>>
    /\ \A d \in TwoSteps :
           ~CanCarve(maze, maze_width, maze_height, stack[Len(stack)], d)
    /\ stack' = SubSeq(stack, 1, Len(stack) - 1)
    /\ UNCHANGED <<maze, maze_width, maze_height, mpc>>
    /\ UNCHANGED <<flowVars, searchVars, ctlVars, normVars, loopVars, circuitVars>>

\* The stack is empty: the entrance and the exit are set Free and the grid
\* is returned (lines 60-63).
MazeReturn ==
    /\ mpc = "carve"
    /\ stack = <<>>
    /\ maze' = [maze EXCEPT ![<<0, 1>>] = "Free",
                            ![<<maze_width - 1, maze_height - 2>>] = "Free"]
    /\ mpc' = "done"
    /\ UNCHANGED <<maze_width, maze_height, stack>>
    /\ UNCHANGED <<flowVars, searchVars, ctlVars, normVars, loopVars, circuitVars>>

NextMaze == MazeCarve \/ MazeBacktrack \/ MazeReturn

SpecMaze == InitMaze /\ [][NextMaze]_vars

\* generate_maze is a sequential loop: while an iteration can be taken, one is.
SpecMazeFair == SpecMaze /\ WF_vars(NextMaze)

-----------------------------------------------------------------------------
(* circuit.rs, gates.rs: QuantumCircuit.  A Complex<f64> is modelled exactly
   by <<a, b, c, d, k>>, which stands for
   ((a + b * sqrt(2)) + i * (c + d * sqrt(2))) / 2^k, with k the least there
   is: the gates of gates.rs lead from such numbers to such numbers. *)

RECURSIVE Pow2(_)
Pow2(k) == IF k = 0 THEN 1 ELSE 2 * Pow2(k - 1)

\* The same number with the least k.
RECURSIVE Amp(_, _, _, _, _)
Amp(a, b, c, d, k) ==
    IF k > 0 /\ a % 2 = 0 /\ b % 2 = 0 /\ c % 2 = 0 /\ d % 2 = 0
    THEN Amp(a \div 2, b \div 2, c \div 2, d \div 2, k - 1)
    ELSE <<a, b, c, d, k>>

AmpAdd(x, y) ==
    LET k == IF x[5] > y[5] THEN x[5] ELSE y[5]
        m == Pow2(k - x[5])
        n == Pow2(k - y[5])
    IN  Amp(m * x[1] + n * y[1], m * x[2] + n * y[2],
            m * x[3] + n * y[3], m * x[4] + n * y[4], k)

\* (re1 + i im1) * (re2 + i im2), with (a + b sqrt 2)(c + d sqrt 2) =
\* ac + 2bd + (ad + bc) sqrt 2.
AmpMul(x, y) ==
    Amp(x[1] * y[1] + 2 * x[2] * y[2] - (x[3] * y[3] + 2 * x[4] * y[4]),
        x[1] * y[2] + x[2] * y[1] - (x[3] * y[4] + x[4] * y[3]),
        x[1] * y[3] + 2 * x[2] * y[4] + x[3] * y[1] + 2 * x[4] * y[2],
        x[1] * y[4] + x[2] * y[3] + x[3] * y[2] + x[4] * y[1],
        x[5] + y[5])

\* amplitude.norm_sqr(): re * re + im * im
amp_norm_sqr(x) ==
    Amp(x[1] * x[1] + 2 * x[2] * x[2] + x[3] * x[3] + 2 * x[4] * x[4],
        2 * x[1] * x[2] + 2 * x[3] * x[4], 0, 0, 2 * x[5])

\* Complex::new(re, im) for the numbers of gates.rs; 1 / SQRT_2 is sqrt(2) / 2.
Zero == <<0, 0, 0, 0, 0>>
One == <<1, 0, 0, 0, 0>>
MinusOne == <<0 - 1, 0, 0, 0, 0>>
ImagOne == <<0, 0, 1, 0, 0>>
MinusImagOne == <<0, 0, 0 - 1, 0, 0>>
InvSqrt2 == <<0, 1, 0, 0, 1>>
MinusInvSqrt2 == <<0, 0 - 1, 0, 0, 1>>

PAULI_X == << <<Zero, One>>, <<One, Zero>> >>
PAULI_Y == << <<Zero, MinusImagOne>>, <<ImagOne, Zero>> >>
PAULI_Z == << <<One, Zero>>, <<Zero, MinusOne>> >>
HADAMARD == << <<InvSqrt2, InvSqrt2>>, <<InvSqrt2, MinusInvSqrt2>> >>

\* Bit b of the index j.
Bit(j, b) == (j \div Pow2(b)) % 2

\* QuantumCircuit::new(num_qubits): amplitude 1 at index 0.
new_circuit(num_qubits) ==
    [i \in 1..Pow2(num_qubits) |-> IF i = 1 THEN One ELSE Zero]

\* A gate applied to the wrong one of the two amplitudes of each pair.
apply_gate_transposed(sv, target_qubit, gate_matrix) ==
    LET stride == Pow2(target_qubit)
    IN  [i \in 1..Len(sv) |->
            IF Bit(i - 1, target_qubit) = 0
            THEN AmpAdd(AmpMul(gate_matrix[1][1], sv[i]),
                        AmpMul(gate_matrix[2][1], sv[i + stride]))
            ELSE AmpAdd(AmpMul(gate_matrix[1][2], sv[i - stride]),
                        AmpMul(gate_matrix[2][2], sv[i])) ]

\* apply_single_qubit_gate: the pairs j, j + stride are those of the indices
\* that differ in the bit of the target only.
apply_single_qubit_gate(sv, target_qubit, gate_matrix) ==
    LET stride == Pow2(target_qubit)
    IN  [i \in 1..Len(sv) |->
            IF Bit(i - 1, target_qubit) = 0
            THEN AmpAdd(AmpMul(gate_matrix[1][1], sv[i]),
                        AmpMul(gate_matrix[1][2], sv[i + stride]))
            ELSE AmpAdd(AmpMul(gate_matrix[2][1], sv[i - stride]),
                        AmpMul(gate_matrix[2][2], sv[i])) ]

\* apply_cnot_gate: the amplitudes of i and j = i ^ target_mask are swapped
\* when the control bit of i is 1 and i < j.
apply_cnot_gate(sv, control_qubit, target_qubit) ==
    [i \in 1..Len(sv) |->
        LET j == IF Bit(i - 1, target_qubit) = 0
                 THEN i - 1 + Pow2(target_qubit) ELSE i - 1 - Pow2(target_qubit)
        IN  IF Bit(i - 1, control_qubit) = 1 /\ Bit(j, control_qubit) = 1
            THEN sv[j + 1] ELSE sv[i] ]

\* The random samples of measure, in eighths: [0, 1) is sampled.
Eighths == 0..7

\* random_sample < cumulative_prob, for the sample s / 8.
SampleBelow(s, cumulative_prob) ==
    PositiveSurd(8 * cumulative_prob[1] - s * Pow2(cumulative_prob[5]),
                 8 * cumulative_prob[2], 2)

\* The loop of measure from index i (from 0) on: the first index whose
\* cumulative probability is above the sample, len - 1 when there is none.
RECURSIVE measured_index(_, _, _, _)
measured_index(sv, s, i, cumulative_prob) ==
    IF i = Len(sv) THEN Len(sv) - 1
    ELSE IF SampleBelow(s, AmpAdd(cumulative_prob, amp_norm_sqr(sv[i + 1]))) THEN i
    ELSE measured_index(sv, s, i + 1, AmpAdd(cumulative_prob, amp_norm_sqr(sv[i + 1])))

\* let mut circuit = QuantumCircuit::new(2)
InitCircuit ==
    /\ FlowOff
    /\ SearchOff
    /\ CtlOff
    /\ NormOff
    /\ LoopOff
    /\ MazeOff
    /\ state_vector = new_circuit(2)
    /\ applied = <<>>
    /\ outcome = 0
    /\ conclusion = "none"
    /\ qpc = "gates"

\* What a gate leaves as it is.
GateFrame ==
    /\ UNCHANGED <<outcome, conclusion, qpc>>
    /\ UNCHANGED <<flowVars, searchVars, ctlVars, normVars, loopVars, mazeVars>>

\* circuit.h(target_qubit)
HGate ==
    /\ qpc = "gates" /\ Len(applied) < MaxGates
    /\ \E target_qubit \in 0..1 :
           /\ state_vector' = apply_single_qubit_gate(state_vector, target_qubit, HADAMARD)
           /\ applied' = Append(applied, <<"h", target_qubit>>)
    /\ GateFrame

\* circuit.x(target_qubit)
XGate ==
    /\ qpc = "gates" /\ Len(applied) < MaxGates
    /\ \E target_qubit \in 0..1 :
           /\ state_vector' = apply_single_qubit_gate(state_vector, target_qubit, PAULI_X)
           /\ applied' = Append(applied, <<"x", target_qubit>>)
    /\ GateFrame

\* circuit.y(target_qubit)
YGate ==
    /\ qpc = "gates" /\ Len(applied) < MaxGates
    /\ \E target_qubit \in 0..1 :
           /\ state_vector' = apply_single_qubit_gate(state_vector, target_qubit, PAULI_Y)
           /\ applied' = Append(applied, <<"y", target_qubit>>)
    /\ GateFrame

\* circuit.z(target_qubit)
ZGate ==
    /\ qpc = "gates" /\ Len(applied) < MaxGates
    /\ \E target_qubit \in 0..1 :
           /\ state_vector' = apply_single_qubit_gate(state_vector, target_qubit, PAULI_Z)
           /\ applied' = Append(applied, <<"z", target_qubit>>)
    /\ GateFrame

\* circuit.cnot(control_qubit, target_qubit)
CnotGate ==
    /\ qpc = "gates" /\ Len(applied) < MaxGates
    /\ \E control_qubit \in 0..1, target_qubit \in 0..1 :
           /\ control_qubit # target_qubit
           /\ state_vector' = apply_cnot_gate(state_vector, control_qubit, target_qubit)
           /\ applied' = Append(applied, <<"cnot", control_qubit, target_qubit>>)
    /\ GateFrame

\* circuit.measure(): the state collapses to the measured index.
Measure ==
    /\ qpc = "gates"
    /\ \E s \in Eighths :
           /\ outcome' = measured_index(state_vector, s, 0, Zero)
           /\ state_vector' = [i \in 1..Len(state_vector) |->
                                  IF i = outcome' + 1 THEN One ELSE Zero]
    /\ qpc' = "measured"
    /\ UNCHANGED <<applied, conclusion>>
    /\ UNCHANGED <<flowVars, searchVars, ctlVars, normVars, loopVars, mazeVars>>

\* main, lines 32-40: first_qubit_measured_value = (outcome >> 1) & 1.
Conclude ==
    /\ qpc = "measured"
    /\ conclusion' = IF Bit(outcome, 1) = 0 THEN "CONSTANT" ELSE "BALANCED"
    /\ qpc' = "concluded"
    /\ UNCHANGED <<state_vector, applied, outcome>>
    /\ UNCHANGED <<flowVars, searchVars, ctlVars, normVars, loopVars, mazeVars>>

NextCircuit == HGate \/ XGate \/ YGate \/ ZGate \/ CnotGate \/ Measure \/ Conclude

SpecCircuit == InitCircuit /\ [][NextCircuit]_vars

-----------------------------------------------------------------------------
(* What the claims speak of *)

RECURSIVE SumFlow(_, _)
SumFlow(g, ids) ==
    IF ids = {} THEN 0
    ELSE LET id == CHOOSE id \in ids : TRUE
         IN  g[id[1]][id[2]].flow + SumFlow(g, ids \ {id})

Inflow(g, n) == SumFlow(g, {id \in EdgeIds(g) : g[id[1]][id[2]].to = n})
Outflow(g, n) == SumFlow(g, {id \in EdgeIds(g) : id[1] = n})

\* An edge that can still take flow.
Residual(e) == e.capacity > e.flow

ResidualTo(g, u, v) == {i \in 1..Len(g[u]) : g[u][i].to = v /\ Residual(g[u][i])}

\* Every path of distinct nodes from the last node of p to snk over residual
\* edges, each as the sequence of its nodes.
RECURSIVE PathsFrom(_, _, _)
PathsFrom(g, p, snk) ==
    IF p[Len(p)] = snk THEN {p}
    ELSE UNION {PathsFrom(g, Append(p, v), snk) :
                  v \in {w \in DOMAIN g : /\ \A j \in 1..Len(p) : p[j] # w
                                          /\ p[Len(p)] \in DOMAIN g
                                          /\ ResidualTo(g, p[Len(p)], w) # {}}}

AugmentingPaths(g, src, snk) == PathsFrom(g, <<src>>, snk)

\* The cheapest residual edge from u to v.
HopCost(g, u, v) ==
    LET cs == {g[u][i].cost : i \in ResidualTo(g, u, v)}
    IN  CHOOSE c \in cs : \A d \in cs : c <= d

RECURSIVE PathCost(_, _, _)
PathCost(g, p, i) ==
    IF i >= Len(p) THEN 0 ELSE HopCost(g, p[i], p[i + 1]) + PathCost(g, p, i + 1)

ZeroFlow(g) == \A id \in EdgeIds(g) : g[id[1]][id[2]].flow = 0

RECURSIVE SumCapacity(_, _)
SumCapacity(g, ids) ==
    IF ids = {} THEN 0
    ELSE LET id == CHOOSE id \in ids : TRUE
         IN  g[id[1]][id[2]].capacity + SumCapacity(g, ids \ {id})

\* The capacity of the edges that leave the node set X.
CutCapacity(g, X) ==
    SumCapacity(g, {id \in EdgeIds(g) : id[1] \in X /\ g[id[1]][id[2]].to \notin X})

\* The value of a maximum flow from src to snk: the capacity of a minimum cut.
MaxFlowValue(g, src, snk) ==
    LET cuts == {CutCapacity(g, X \cup {src}) : X \in SUBSET (DOMAIN g \ {src, snk})}
    IN  CHOOSE c \in cuts : \A d \in cuts : c <= d

\* The augmenting paths of least cost.
CheapestPaths(g, src, snk) ==
    {p \in AugmentingPaths(g, src, snk) :
        \A q \in AugmentingPaths(g, src, snk) : PathCost(g, p, 1) <= PathCost(g, q, 1)}

\* The least cost of a path from src to v over residual edges.
Distance(g, src, v) ==
    LET cs == {PathCost(g, p, 1) : p \in PathsFrom(g, <<src>>, v)}
    IN  CHOOSE c \in cs : \A d \in cs : c <= d

Reachable(g, src) == {v \in DOMAIN g : PathsFrom(g, <<src>>, v) # {}}

\* The nodes from which a residual edge brings v its least distance.
BestOffers(g, src, v) ==
    {q \in Reachable(g, src) \ {v} :
        /\ ResidualTo(g, q, v) # {}
        /\ Distance(g, src, q) + HopCost(g, q, v) = Distance(g, src, v)}

\* q comes first: it is nearer to the source or, at the same distance, has the
\* greater coordinates.
NearerOrGreater(g, src, q, r) ==
    \/ Distance(g, src, q) < Distance(g, src, r)
    \/ Distance(g, src, q) = Distance(g, src, r) /\ PointLess(r, q)

PositiveCosts(g) == \A id \in EdgeIds(g) : g[id[1]][id[2]].cost >= 1

\* The first position at which the paths p and q differ.
FirstDiff(p, q) == CHOOSE k \in 2..Len(p) : p[k] # q[k] /\ \A j \in 1..(k - 1) : p[j] = q[j]

\* The place of the first residual edge from u to v in u's edge sequence: edges
\* are appended by add_edge, so a smaller place is an earlier insertion.
InsertionPlace(g, u, v) ==
    CHOOSE i \in ResidualTo(g, u, v) : \A j \in ResidualTo(g, u, v) : i <= j

InsertedEarlier(g, p, q) ==
    LET k == FirstDiff(p, q)
    IN  InsertionPlace(g, p[k - 1], p[k]) < InsertionPlace(g, p[k - 1], q[k])

\* The cells one move away from p that are not Blocked.
FreeNeighbours(g, p) ==
    {q \in Cells : g[q] # "Blocked" /\ Abs(q[1] - p[1]) + Abs(q[2] - p[2]) = 1}

\* Breadth-first search: the least number of moves from a cell of the set
\* front to gl, counted from d, or -1 when there is none.
RECURSIVE BfsLength(_, _, _, _, _)
BfsLength(g, seen, front, gl, d) ==
    IF gl \in front THEN d
    ELSE IF front = {} THEN 0 - 1
    ELSE LET next == (UNION {FreeNeighbours(g, p) : p \in front}) \ seen
         IN  BfsLength(g, seen \cup next, next, gl, d + 1)

\* The length of a shortest route from st to gl over cells that are not
\* Blocked, -1 when there is no route.
RouteLength(g, st, gl) ==
    IF g[st] = "Blocked" THEN 0 - 1 ELSE BfsLength(g, {st}, {st}, gl, 0)

\* path leads from st to gl in moves to 4-adjacent cells that are not Blocked.
IsRoute(g, path, st, gl) ==
    /\ Len(path) >= 1 /\ path[1] = st /\ path[Len(path)] = gl
    /\ \A i \in 1..Len(path) : path[i] \in Cells /\ g[path[i]] # "Blocked"
    /\ \A i \in 1..(Len(path) - 1) :
           Abs(path[i + 1][1] - path[i][1]) + Abs(path[i + 1][2] - path[i][2]) = 1

-----------------------------------------------------------------------------
(* C1  Capacity respect: in every state reached by add_edge, edmonds_karp and
   route_cheapest_path calls, every edge has flow <= capacity. *)
CapacityRespect ==
    \A id \in EdgeIds(adj) : adj[id[1]][id[2]].flow <= adj[id[1]][id[2]].capacity

\* edmonds_karp has returned more than one unit, one edge is full and another
\* one carries flow below its capacity.
CapacityRespectWitness ==
    /\ ret.op = "edmonds_karp" /\ ret.flow >= 2
    /\ \E id \in EdgeIds(adj) : adj[id[1]][id[2]].flow = adj[id[1]][id[2]].capacity
    /\ \E id \in EdgeIds(adj) :
           /\ adj[id[1]][id[2]].flow > 0
           /\ adj[id[1]][id[2]].flow < adj[id[1]][id[2]].capacity

(* C3  Flow conservation: at every node other than the source and the sink
   the flow on the incoming edges equals the flow on the outgoing edges. *)
FlowConservation ==
    \A n \in DOMAIN adj \ {source, sink} : Inflow(adj, n) = Outflow(adj, n)

\* route_cheapest_path has pushed flow through an inner node that has a
\* second outgoing edge.
FlowConservationWitness ==
    /\ ret.op = "route" /\ ret.some /\ ret.flow > 0 /\ Len(ret.path) >= 3
    /\ \E n \in DOMAIN adj \ {source, sink} :
           Inflow(adj, n) = ret.flow /\ Inflow(pre, n) = 0 /\ Len(adj[n]) >= 2

(* C6  Whenever route_cheapest_path returns Some(path), path leads from the
   source to the sink over edges with capacity > flow and the sum of its edge
   costs is minimal among all such paths. *)
CheapestPathIsMinimal ==
    (ret.op = "route" /\ ret.some) =>
        /\ ret.path \in AugmentingPaths(pre, source, sink)
        /\ \A p \in AugmentingPaths(pre, source, sink) :
               PathCost(pre, ret.path, 1) <= PathCost(pre, p, 1)

\* The call had a dearer path to leave aside, and took the longer of the two.
CheapestPathIsMinimalWitness ==
    /\ ret.op = "route" /\ ret.some /\ Len(ret.path) = 3
    /\ \E p \in AugmentingPaths(pre, source, sink) :
           Len(p) = 2 /\ PathCost(pre, p, 1) > PathCost(pre, ret.path, 1)

(* C2  edmonds_karp, called with all flows 0, returns the value of a maximum
   flow from the source to the sink, whatever the edge costs are. *)
EdmondsKarpIsMaximum ==
    (ret.op = "edmonds_karp" /\ ZeroFlow(pre)) =>
        ret.flow = MaxFlowValue(pre, source, sink)

(* C7 as claimed: among several augmenting paths of the same least cost,
   route_cheapest_path picks the one whose first differing edge was added to
   the graph earlier. *)
TieBrokenByInsertionOrder ==
    (ret.op = "route" /\ ret.some) =>
        \A q \in CheapestPaths(pre, source, sink) \ {ret.path} :
            InsertedEarlier(pre, ret.path, q)

(* C7 as amended: with strictly positive costs the tie is broken by the
   coordinates of the nodes: every node of the returned path has as its
   predecessor, among the nodes that offer it its least distance, the one
   nearest to the source and, among equally near ones, the one with the
   greatest (x, y). *)
TieBrokenByCoordinates ==
    (ret.op = "route" /\ ret.some /\ PositiveCosts(pre)) =>
        \A i \in 2..Len(ret.path) :
            /\ ret.path[i - 1] \in BestOffers(pre, source, ret.path[i])
            /\ \A q \in BestOffers(pre, source, ret.path[i]) \ {ret.path[i - 1]} :
                   NearerOrGreater(pre, source, ret.path[i - 1], q)

\* Two paths of the same least cost, and the one picked starts with the edge
\* that was inserted later.
TieBrokenByCoordinatesWitness ==
    /\ ret.op = "route" /\ ret.some /\ PositiveCosts(pre)
    /\ \E q \in CheapestPaths(pre, source, sink) \ {ret.path} :
           InsertedEarlier(pre, q, ret.path)

(* C8  On the diamond graph with all flows 0, edmonds_karp returns 17 and
   leaves every one of the five edges with flow = capacity, for any costs. *)
DiamondSaturated ==
    (ret.op = "edmonds_karp" /\ ZeroFlow(pre)) =>
        /\ ret.flow = 17
        /\ \A id \in EdgeIds(adj) : adj[id[1]][id[2]].flow = adj[id[1]][id[2]].capacity

\* edmonds_karp has returned on a diamond whose detour was the cheaper route,
\* so that the 7 units were routed before the 10.
DiamondSaturatedWitness ==
    /\ ret.op = "edmonds_karp" /\ ZeroFlow(pre) /\ EdgeCount(pre) = 5
    /\ PathCost(pre, <<source, node_b, node_c, sink>>, 1)
           < PathCost(pre, <<source, node_a, sink>>, 1)
    /\ ret.flow = 17

(* C4  For every grid, start and goal for which a route exists, a_star
   returns a route from start to goal whose number of moves is that of a
   shortest route, as found by breadth-first search. *)
AStarOptimal ==
    (spc = "done" /\ RouteLength(grid, start, goal) >= 0) =>
        /\ result.some
        /\ IsRoute(grid, result.path, start, goal)
        /\ Len(result.path) - 1 = RouteLength(grid, start, goal)

\* a_star has returned a route that had to leave the straight way: it is
\* longer than the Manhattan distance.
AStarOptimalWitness ==
    /\ spc = "done" /\ result.some
    /\ RouteLength(grid, start, goal) > manhattan_distance(start, goal)
    /\ Len(result.path) - 1 = RouteLength(grid, start, goal)

-----------------------------------------------------------------------------
(* The cost a_star_moma_cost is meant to minimise *)

\* The cost of the i-th point's step on a path: oracle + 1, plus the penalty
\* when the step repeats the direction of the path's previous step.
StepCost(path, i) ==
    oracle[<<automaton[path[i - 1]], automaton[path[i]]>>] + 1
    + (IF i >= 3
          /\ path[i][1] - path[i - 1][1] = path[i - 1][1] - path[i - 2][1]
          /\ path[i][2] - path[i - 1][2] = path[i - 1][2] - path[i - 2][2]
       THEN as_u64(weight) ELSE 0)

RECURSIVE TotalCost(_, _)
TotalCost(path, i) == IF i < 2 THEN 0 ELSE TotalCost(path, i - 1) + StepCost(path, i)

\* Every path without a repeated cell that extends p to gl.
RECURSIVE SimplePaths(_, _)
SimplePaths(p, gl) ==
    IF p[Len(p)] = gl THEN {p}
    ELSE UNION { SimplePaths(Append(p, n), gl) :
                 n \in { c \in Cells : /\ Abs(c[1] - p[Len(p)][1]) + Abs(c[2] - p[Len(p)][2]) = 1
                                       /\ \A k \in 1..Len(p) : p[k] # c } }

LeastTotalCost ==
    LET all == { TotalCost(q, Len(q)) : q \in SimplePaths(<<start>>, goal) }
    IN  CHOOSE c \in all : \A d \in all : c <= d

(* C5: the path a_star_moma_cost returns has the least total cost among the
   start-to-goal paths, a step costing oracle(current, next) + 1 plus the
   structure penalty weight when it continues in the direction of the path's
   previous step. *)
PenaltyPathOptimal ==
    (spc = "done" /\ result.some) =>
        TotalCost(result.path, Len(result.path)) = LeastTotalCost

\* A 3 x 2 automaton whose only 1 is at (1, 1), the cost of a step being the
\* value entered, the weight 2.0, from (0, 1) to (2, 0).
DetourInput ==
    /\ automaton = [c \in Cells |-> IF c = <<1, 1>> THEN 1 ELSE 0]
    /\ oracle = [p \in Vals \X Vals |-> p[2]]
    /\ weight = 4
    /\ start = <<0, 1>>
    /\ goal = <<2, 0>>

\* On that input the search returns a dearer path whichever of the equal
\* priorities the heap pops first.
DetourMissedOnEveryOrder ==
    (DetourInput /\ spc = "done") =>
        /\ result.some
        /\ TotalCost(result.path, Len(result.path)) > LeastTotalCost

-----------------------------------------------------------------------------
(* The penalty controller *)

(* C9: after every step of the controller, whatever norms were measured, the
   penalty weight is not negative. *)
PenaltyNeverNegative == ~FracLess(penalty, <<0, 1>>)

\* A step that started from a positive weight, measured a norm that is not
\* reset, and was held at 0 by the clamp.
PenaltyNeverNegativeWitness ==
    /\ steps > 0
    /\ FracLess(<<0, 1>>, penalty_before)
    /\ ~FracLess(norm, norm_threshold)
    /\ FracLess(decay_and_adjust(penalty_before, norm), <<0, 1>>)
    /\ penalty = <<0, 1>>

(* C10: when the norm measured in a step is below 0.0001, the penalty weight
   at the end of that step is 0, whatever the weight was before the step
   (the target norm being the 0.25 of dynamic_pathfinding). *)
ResetOnDegenerateSignal ==
    (steps > 0 /\ FracLess(norm, norm_threshold)) => penalty = <<0, 1>>

\* A step that measured such a norm from a weight so large that decay and
\* adjustment alone would have left it positive.
ResetOnDegenerateSignalWitness ==
    /\ steps > 0
    /\ FracLess(norm, norm_threshold)
    /\ FracLess(<<0, 1>>, decay_and_adjust(penalty_before, norm))
    /\ penalty = <<0, 1>>

-----------------------------------------------------------------------------
(* The spectral norm *)

IsZeroNorm(g) == g.p = 0 /\ g.q = 0
IsOneNorm(g) == g.p = g.den /\ g.q = 0

\* The samples given to calculate_u2_norm_fft were one point of the unit
\* circle: those of a path of two points, or of one value that is not 0.
OneUnitSample ==
    \/ Len(maze_path) = 2
    \/ Len(flow_sequence) = 1 /\ flow_sequence[1] # 0

(* C11 as claimed: calculate_u2_norm_fft returns 0 for the empty sequence
   and for every sequence of one sample of the unit circle. *)
DegenerateNormIsZero ==
    (npc = "done" /\ (Len(complex_sequence.samples) = 0 \/ OneUnitSample)) =>
        IsZeroNorm(gowers_norm)

(* C11 as amended: calculate_u2_norm_fft returns 0 for the empty sequence
   and 1 for every sequence of one sample of the unit circle. *)
DegenerateNorm ==
    /\ (npc = "done" /\ Len(complex_sequence.samples) = 0) => IsZeroNorm(gowers_norm)
    /\ (npc = "done" /\ OneUnitSample) => IsOneNorm(gowers_norm)

\* The norm of the one sample of a path of two points has been computed.
DegenerateNormWitness ==
    /\ npc = "done"
    /\ Len(maze_path) = 2
    /\ Len(complex_sequence.samples) = 1
    /\ IsOneNorm(gowers_norm)

StraightLine == << <<0, 0>>, <<1, 0>>, <<2, 0>>, <<3, 0>> >>

\* Three samples of angle 0.
StraightSamples ==
    /\ Len(complex_sequence.samples) = 3
    /\ \A i \in 1..3 : complex_sequence.samples[i] = RingUnit(complex_sequence.order, 0)

(* C12 as claimed: the path (0,0), (1,0), (2,0), (3,0) is mapped to three
   samples of angle 0 and the norm of that sequence is 0. *)
StraightLineNormIsZero ==
    /\ (npc = "mapped" /\ maze_path = StraightLine) => StraightSamples
    /\ (npc = "done" /\ maze_path = StraightLine) => IsZeroNorm(gowers_norm)

(* C12 as amended: the path (0,0), (1,0), (2,0), (3,0) is mapped to three
   samples of angle 0 and the norm of that sequence is 1. *)
StraightLineNorm ==
    /\ (npc = "mapped" /\ maze_path = StraightLine) => StraightSamples
    /\ (npc = "done" /\ maze_path = StraightLine) => IsOneNorm(gowers_norm)

\* The norm of the straight line has been computed from the transform of
\* its three samples.
StraightLineNormWitness ==
    /\ npc = "done"
    /\ maze_path = StraightLine
    /\ Len(complex_sequence.samples) = 3
    /\ complex_sequence.order = 12
    /\ gowers_norm = Norm4(1, 0, 3, 1)

\* A non-empty sequence of flow values whose maximum is 0 has been mapped.
ZeroFlowsMapped ==
    /\ npc = "mapped"
    /\ Len(flow_sequence) > 0
    /\ \A i \in 1..Len(flow_sequence) : flow_sequence[i] = 0

(* C13 as claimed: when the maximum of a non-empty sequence of flow values
   is 0, values_to_complex_sequence_fft maps every sample to angle 0, the
   complex number (1, 0). *)
ZeroFlowsMapToAngleZero ==
    ZeroFlowsMapped =>
        \A i \in 1..Len(flow_sequence) :
            complex_sequence.samples[i] = RingUnit(complex_sequence.order, 0)

(* C13 as amended: when the maximum of a non-empty sequence of flow values
   is 0, values_to_complex_sequence_fft maps every sample to the complex
   number (0, 0), and the sequence is as long as the values. *)
ZeroFlowsMapToZero ==
    ZeroFlowsMapped =>
        /\ Len(complex_sequence.samples) = Len(flow_sequence)
        /\ \A i \in 1..Len(flow_sequence) :
               complex_sequence.samples[i] = RingZero(complex_sequence.order)

\* Three flows of 0 have been mapped to three samples.
ZeroFlowsMapToZeroWitness ==
    /\ ZeroFlowsMapped
    /\ Len(flow_sequence) = 3
    /\ Len(complex_sequence.samples) = 3

-----------------------------------------------------------------------------
(* The flow-control loop *)

\* The graph and the flows LoopAdjust has looked at are those of pre.
BusiestUnder(order) == busiest_edge(pre, source, order)

(* C14: the edge chosen for the cost adjustment does not depend on the order
   in which the hash map iterates: whenever a step has raised a cost, every
   order of iteration over the same graph names the same edge, so that two
   runs from the same graph produce the same step records. *)
AdjustedEdgeIndependentOfHashOrder ==
    (lpc = "reset" /\ record.adjusted) =>
        \A o \in HashOrders(DOMAIN pre) :
            /\ BusiestUnder(o).from = record.from
            /\ BusiestUnder(o).to = record.to

\* The first step from the diamond graph: 17 units flow, 10 of them on each
\* of two edges, and the step has raised the cost of one of the two.
AdjustedEdgeTie ==
    /\ lpc = "reset"
    /\ step = 0
    /\ record.adjusted
    /\ record.total_flow = 17
    /\ Cardinality({id \in EdgeIds(pre) : pre[id[1]][id[2]].flow = 10}) = 2

\* g and h have the same nodes and, edge by edge, the same to, capacity, cost.
SameButFlow(g, h) ==
    /\ DOMAIN g = DOMAIN h
    /\ \A n \in DOMAIN g :
           /\ Len(g[n]) = Len(h[n])
           /\ \A i \in 1..Len(g[n]) :
                  /\ g[n][i].to = h[n][i].to
                  /\ g[n][i].capacity = h[n][i].capacity
                  /\ g[n][i].cost = h[n][i].cost

(* C19: in the flow-control loop every edge has flow 0 when a step's
   edmonds_karp call starts, and the reset of the flows changes no edge's
   capacity or cost (nor the nodes or the edges there are). *)
FlowResetBetweenComputations ==
    /\ (lpc = "observe" => ZeroFlow(pre))
    /\ (ret.op = "reset" => ZeroFlow(adj) /\ SameButFlow(adj, pre))

\* A later step's edmonds_karp call has started from zero flows on a graph
\* of which a cost has been raised, and has routed 17 units.
FlowResetBetweenComputationsWitness ==
    /\ lpc = "observe"
    /\ step >= 1
    /\ ZeroFlow(pre)
    /\ ~ZeroFlow(adj)
    /\ ret.flow = 17
    /\ \E id \in EdgeIds(pre) : pre[id[1]][id[2]].cost > 1

-----------------------------------------------------------------------------
(* Integer widths of the search *)

\* The nodes pushed by the step.
Pushed == frontier' \ frontier

(* C15: accumulated path costs are never silently truncated: the g-cost
   stored in a node when it is pushed to the frontier equals the cost_so_far
   recorded for its point, even when the cost exceeds 32 bits. *)
FrontierCostIsCostSoFar ==
    [][\A n \in Pushed : n.cost = cost_so_far'[n.point]]_vars

\* A cost that does not fit a u32 has been recorded for a point.
CostBeyondU32 ==
    /\ spc = "search"
    /\ weight = 2 * U32_RANGE
    /\ \E p \in DOMAIN cost_so_far : cost_so_far[p] >= U32_RANGE

-----------------------------------------------------------------------------
(* Routing without a path, and the frame of add_edge *)

\* The call whose return is in ret started from a graph without a path from
\* source to sink over edges with capacity > flow.
NoPathBefore == AugmentingPaths(pre, source, sink) = {}

(* C16: when no source-to-sink path exists over edges with capacity > flow,
   route_cheapest_path returns (0, None) and edmonds_karp returns 0 at its
   first iteration, neither panics, and the graph, with the flow, cost and
   capacity of every edge, is as it was. *)
NoPathFound ==
    /\ (ret.op = "route" /\ NoPathBefore) =>
           ret.flow = 0 /\ ~ret.some /\ ret.path = <<>> /\ adj = pre
    /\ (pc = "ek" /\ NoPathBefore) =>
           /\ max_flow = 0 /\ iters = 0 /\ adj = pre
           /\ ~find_cheapest_path_dijkstra(adj, source, sink).sink_found
    /\ (ret.op = "edmonds_karp" /\ NoPathBefore) =>
           ret.flow = 0 /\ iters = 0 /\ adj = pre
    /\ pc = "panic" => ~NoPathBefore

\* Some edge of g from u to v, saturated or not.
Linked(g, u, v) == u \in DOMAIN g /\ \E i \in 1..Len(g[u]) : g[u][i].to = v

\* route_cheapest_path has returned from a graph whose only way from the
\* source to the sink was saturated by flow routed before.
NoPathFoundWitness ==
    /\ ret.op = "route"
    /\ NoPathBefore
    /\ source # sink
    /\ ~ZeroFlow(pre)
    /\ \/ Linked(pre, source, sink)
       \/ \E n \in DOMAIN pre : Linked(pre, source, n) /\ Linked(pre, n, sink)

\* edmonds_karp has returned from such a graph.
NoPathFoundByEdmondsKarp ==
    /\ ret.op = "edmonds_karp"
    /\ NoPathBefore
    /\ ~ZeroFlow(pre)

\* The edges of n in g, none when n is not a key.
EdgesOf(g, n) == IF n \in DOMAIN g THEN g[n] ELSE <<>>

(* C20: add_edge(from, to, capacity, cost) makes both endpoints keys of the
   adjacency map, appends exactly one edge {to, capacity, cost, flow = 0} at
   the end of from's sequence, and leaves every edge there was, with its
   target, capacity, cost, flow and place, unchanged. *)
AddEdgeFrame ==
    ret.op = "add_edge" =>
        LET from == ret.arg[1]
            to == ret.arg[2]
        IN  /\ DOMAIN adj = DOMAIN pre \cup {from, to}
            /\ adj[from] = Append(EdgesOf(pre, from),
                                  [to |-> to, capacity |-> ret.arg[3],
                                   cost |-> ret.arg[4], flow |-> 0])
            /\ \A n \in DOMAIN adj \ {from} : adj[n] = EdgesOf(pre, n)

\* An edge to a node that was no key has been added after an edge that
\* carries flow.
AddEdgeFrameWitness ==
    /\ ret.op = "add_edge"
    /\ ret.arg[1] \in DOMAIN pre
    /\ ret.arg[2] \notin DOMAIN pre
    /\ \E i \in 1..Len(pre[ret.arg[1]]) : pre[ret.arg[1]][i].flow > 0
    /\ Len(adj[ret.arg[1]]) = Len(pre[ret.arg[1]]) + 1

-----------------------------------------------------------------------------
(* The edge cases of a_star *)

\* No sequence of moves into cells that are not Blocked leads from the start
\* to the goal (the cell of the start itself is not one that is moved into).
GoalDisconnected == BfsLength(grid, {start}, {start}, goal, 0) < 0

\* a_star has returned None with its frontier exhausted.
ReturnedNone ==
    spc = "done" /\ ~result.some /\ result.path = <<>> /\ frontier = {}

(* C17: for every grid in which the goal cannot be reached from the start by
   moves into non-blocked cells, a_star terminates: it exhausts its frontier
   and returns None, and never a path. *)
DisconnectedGoal == GoalDisconnected ~> ReturnedNone

\* a_star has returned None for a goal that is Free but walled off, after
\* it has explored the cells that can be reached.
DisconnectedGoalWitness ==
    /\ ReturnedNone
    /\ GoalDisconnected
    /\ grid[goal] = "Free"
    /\ Cardinality(DOMAIN cost_so_far) >= 3

(* C18: for every grid and every point p, a_star(grid, p, p) returns Some
   path that consists of the single node p. *)
StartIsGoal ==
    (spc = "done" /\ start = goal) => result.some /\ result.path = <<start>>

\* a_star has returned for a start that is the goal, and a Blocked cell.
StartIsGoalWitness ==
    /\ spc = "done"
    /\ start = goal
    /\ grid[start] = "Blocked"
    /\ result.some
    /\ Len(result.path) = 1

-----------------------------------------------------------------------------
(* Bounds and forms of the norm *)

\* The samples the norm was computed of were points of the unit circle: those
\* of a path of two points or more, or of flow values whose maximum is not 0.
UnitInput ==
    \/ Len(maze_path) >= 2
    \/ \E i \in 1..Len(flow_sequence) : flow_sequence[i] > 0

\* 0 <= (p + q * sqrt(root)) / den <= 1; a number that is not negative lies
\* in [0, 1] exactly when its fourth power does.
InUnitInterval(g) ==
    /\ ~PositiveSurd(0 - g.p, 0 - g.q, g.root)
    /\ ~PositiveSurd(g.p - g.den, g.q, g.root)

(* C21: for every non-empty sequence of unit-magnitude complex samples the
   value returned by calculate_u2_norm_fft lies in the closed interval
   [0, 1]. *)
NormBounds == (npc = "done" /\ UnitInput) => InUnitInterval(gowers_norm)

\* The norm of the four samples of a staircase has been computed: its fourth
\* power is 1/2, inside the interval.
NormBoundsWitness ==
    /\ npc = "done"
    /\ UnitInput
    /\ Len(complex_sequence.samples) = 4
    /\ gowers_norm = Norm4(1, 0, 3, 2)

\* Every sample of the sequence is a point of the unit circle, and there is
\* one at least.
UnitSamples(sequence) ==
    /\ Len(sequence.samples) > 0
    /\ \A i \in 1..Len(sequence.samples) :
           \E e \in 0..(sequence.order - 1) :
               sequence.samples[i] = RingUnit(sequence.order, e)

\* s[x] * s[x + h1] * s[x + h2] * s[x + h1 + h2], the indices from 0.
FourFold(N, s, x, h1, h2) ==
    RingMul(N, RingMul(N, s[x + 1], s[x + h1 + 1]),
               RingMul(N, s[x + h2 + 1], s[x + h1 + h2 + 1]))

\* The sum of the products over the triples t = x + n * h1 + n * n * h2, from
\* t on, with all four indices in bounds.
RECURSIVE InBoundsSum(_, _, _)
InBoundsSum(N, s, t) ==
    LET n == Len(s)
        x == t % n
        h1 == (t \div n) % n
        h2 == t \div (n * n)
    IN  IF t = n * n * n THEN RingZero(N)
        ELSE RingAdd(N, IF x + h1 + h2 < n THEN FourFold(N, s, x, h1, h2)
                        ELSE RingZero(N),
                     InBoundsSum(N, s, t + 1))

\* The number of those triples.
InBoundsTriples(n) ==
    Cardinality({t \in 0..(n * n * n - 1) :
                    (t % n) + ((t \div n) % n) + (t \div (n * n)) < n})

\* The magnitude of the average of the products in bounds equals the fourth
\* power g of the spectral norm: the squares of the two are compared, with
\* 4 |sum|^2 = a + b * sqrt(root).
InBoundsFormAgrees(sequence, g) ==
    LET N == sequence.order
        sum == InBoundsSum(N, sequence.samples, 0)
        T == InBoundsTriples(Len(sequence.samples))
        a == Real4(N, norm_sqr(N, sum), 0, 1)
        b == Real4(N, norm_sqr(N, sum), 0, 2)
    IN  /\ g.den * g.den * a = 4 * T * T * (g.p * g.p + g.q * g.q * g.root)
        /\ g.den * g.den * b = 4 * T * T * 2 * g.p * g.q

\* s[x] * conj(s[x + h1]) * conj(s[x + h2]) * s[x + h1 + h2], the indices
\* taken modulo n.
CyclicFourFold(N, s, x, h1, h2) ==
    LET n == Len(s)
    IN  RingMul(N, RingMul(N, s[x + 1], RingConj(N, s[((x + h1) % n) + 1])),
                   RingMul(N, RingConj(N, s[((x + h2) % n) + 1]),
                              s[((x + h1 + h2) % n) + 1]))

\* The sum of these products over all n^3 triples, from triple t on.
RECURSIVE CyclicSum(_, _, _)
CyclicSum(N, s, t) ==
    LET n == Len(s)
    IN  IF t = n * n * n THEN RingZero(N)
        ELSE RingAdd(N, CyclicFourFold(N, s, t % n, (t \div n) % n, t \div (n * n)),
                     CyclicSum(N, s, t + 1))

\* The cyclic sum is a real number that is not negative (its square has the
\* real part of its squared magnitude), and the sum over n^3 is g.
CyclicFormAgrees(sequence, g) ==
    LET N == sequence.order
        n == Len(sequence.samples)
        sum == CyclicSum(N, sequence.samples, 0)
        a == Real4(N, sum, 0, 1)
        b == Real4(N, sum, 0, 2)
    IN  /\ Real4(N, powi2(N, sum), 0, 1) = Real4(N, norm_sqr(N, sum), 0, 1)
        /\ Real4(N, powi2(N, sum), 0, 2) = Real4(N, norm_sqr(N, sum), 0, 2)
        /\ ~PositiveSurd(0 - a, 0 - b, g.root)
        /\ a * g.den = 4 * n * n * n * g.p
        /\ b * g.den = 4 * n * n * n * g.q

\* calculate_u2_norm_fft is applied to unit samples by the step.
NormOfUnitSamples ==
    npc = "mapped" /\ npc' = "done" /\ UnitSamples(complex_sequence)

(* C22 as claimed: on every sequence of unit samples the direct form, the
   4th root of the magnitude of the average of s[x] * s[x+h1] * s[x+h2] *
   s[x+h1+h2] over the triples with all four indices in bounds, and the
   value of calculate_u2_norm_fft are the same. *)
DirectFormInBoundsAgrees ==
    [][NormOfUnitSamples => InBoundsFormAgrees(complex_sequence, gowers_norm')]_vars

(* C22 as amended: on every sequence of unit samples the value of
   calculate_u2_norm_fft is the 4th root of the average of s[x] *
   conj(s[x+h1]) * conj(s[x+h2]) * s[x+h1+h2] over all n^3 triples, the
   indices taken modulo n; that average is real and not negative. *)
DirectFormCyclicAgrees ==
    [][NormOfUnitSamples => CyclicFormAgrees(complex_sequence, gowers_norm')]_vars

\* The norm of the samples 1, i of a path with one turn has been computed:
\* its fourth power is 1/2, while the products in bounds sum to 0.
DirectFormCyclicAgreesWitness ==
    /\ npc = "done"
    /\ maze_path = << <<0, 0>>, <<1, 0>>, <<1, 1>> >>
    /\ gowers_norm = Norm4(1, 0, 3, 2)
    /\ Real4(4, norm_sqr(4, InBoundsSum(4, path_to_complex_sequence_fft(maze_path).samples,
                                        0)), 0, 1) = 0

-----------------------------------------------------------------------------
(* The maze *)

\* The cells next to p, in the grid g, that are not Blocked.
OpenNextTo(g, p) ==
    {q \in DOMAIN g : /\ Abs(q[1] - p[1]) + Abs(q[2] - p[2]) = 1
                      /\ g[q] # "Blocked"}

\* The cells reached from the cells of front by moves to 4-adjacent cells
\* that are not Blocked.
RECURSIVE Flood(_, _, _)
Flood(g, seen, front) ==
    IF front = {} THEN seen
    ELSE LET next == (UNION {OpenNextTo(g, p) : p \in front}) \ seen
         IN  Flood(g, seen \cup next, next)

\* generate_maze has returned a grid with a path of 4-adjacent non-Blocked
\* cells from (0, 1) to (width - 1, height - 2).
ReturnedWithRoute ==
    /\ mpc = "done"
    /\ maze[<<0, 1>>] # "Blocked"
    /\ <<maze_width - 1, maze_height - 2>> \in Flood(maze, {<<0, 1>>}, {<<0, 1>>})

(* C23: for every odd width >= 3 and odd height >= 3 and every outcome of
   the shuffles, generate_maze terminates and the grid it returns holds a
   path of 4-adjacent non-Blocked cells from (0, 1) to (width - 1,
   height - 2). *)
MazeHasRoute == (mpc = "carve") ~> ReturnedWithRoute

\* A 7 x 5 maze has been returned after all six inner cells were carved, two
\* of the walls between them left standing.
MazeHasRouteWitness ==
    /\ ReturnedWithRoute
    /\ maze_width = 7
    /\ maze_height = 5
    /\ \A p \in {<<1, 1>>, <<3, 1>>, <<5, 1>>, <<1, 3>>, <<3, 3>>, <<5, 3>>} :
           maze[p] = "Free"
    /\ maze[<<1, 2>>] = "Blocked"
    /\ maze[<<3, 2>>] = "Blocked"

-----------------------------------------------------------------------------
(* Deutsch's algorithm *)

\* The circuit of the example's main for f(x) = x.
DeutschCircuit ==
    << <<"x", 1>>, <<"h", 0>>, <<"h", 1>>, <<"cnot", 0, 1>>, <<"h", 0>> >>

(* C24: for the balanced function f(x) = x, the circuit x(1), h(0), h(1),
   cnot(0, 1), h(0) followed by measure() reports the first qubit as 1 for
   every measurement outcome: the program always concludes BALANCED. *)
DeutschConcludesBalanced ==
    (qpc = "concluded" /\ applied = DeutschCircuit) => conclusion = "BALANCED"

\* What holds of the circuit instead: bit 0 of every outcome is 1, and bit 1,
\* which main reads, is 0 for one outcome and 1 for the other.
DeutschOutcomes ==
    (qpc = "concluded" /\ applied = DeutschCircuit) =>
        /\ outcome \in {1, 3}
        /\ Bit(outcome, 0) = 1
        /\ conclusion = (IF outcome = 1 THEN "CONSTANT" ELSE "BALANCED")

\* The program has concluded CONSTANT after Deutsch's circuit.
DeutschConcludesConstant ==
    /\ qpc = "concluded"
    /\ applied = DeutschCircuit
    /\ outcome = 1
    /\ conclusion = "CONSTANT"

-----------------------------------------------------------------------------
(* One augmentation, and the end of edmonds_karp *)

\* The ways to take, for every hop of the node path p, one edge of g that
\* joins the two nodes and has capacity > flow: each way as the set of the
\* edges taken.
RECURSIVE EdgesAlong(_, _, _)
EdgesAlong(g, p, i) ==
    IF i >= Len(p) THEN {{}}
    ELSE {{<<p[i], k>>} \cup rest :
            k \in ResidualTo(g, p[i], p[i + 1]), rest \in EdgesAlong(g, p, i + 1)}

\* The least capacity - flow of the edges ids of g.
LeastResidual(g, ids) ==
    CHOOSE r \in {g[id[1]][id[2]].capacity - g[id[1]][id[2]].flow : id \in ids} :
        \A id \in ids : r <= g[id[1]][id[2]].capacity - g[id[1]][id[2]].flow

(* C25: when route_cheapest_path returns (f, Some(path)), f is the least
   capacity - flow of the edges of the path as they were before the call,
   the flow of every edge of the path has grown by f, and the flow of every
   other edge and the cost and capacity of every edge are unchanged.  The
   edges of the path are edges with capacity > flow, one for every hop. *)
AugmentationEffect ==
    (ret.op = "route" /\ ret.some /\ Len(ret.path) >= 2) =>
        /\ SameButFlow(adj, pre)
        /\ \E ids \in EdgesAlong(pre, ret.path, 1) :
               /\ ret.flow = LeastResidual(pre, ids)
               /\ \A id \in EdgeIds(pre) :
                      adj[id[1]][id[2]].flow =
                          pre[id[1]][id[2]].flow + (IF id \in ids THEN ret.flow ELSE 0)

\* route_cheapest_path has returned Some path and the flow 0.
AugmentationOfNothing ==
    /\ ret.op = "route" /\ ret.some /\ Len(ret.path) >= 2
    /\ ret.flow = 0
    /\ adj = pre

\* The graphs in which no two edges join the same ordered pair of nodes.
NoParallelEdges(g) ==
    \A n \in DOMAIN g : \A i, j \in 1..Len(g[n]) : g[n][i].to = g[n][j].to => i = j

\* In graphs without parallel edges the effect is as C25 says.
AugmentationEffectOnSimpleGraphs == NoParallelEdges(adj) => AugmentationEffect

-----------------------------------------------------------------------------
(* The cost of a step of a_star_moma_cost *)

\* The cells whose cost the step has written.
Recosted ==
    {p \in DOMAIN cost_so_far' :
        p \notin DOMAIN cost_so_far \/ cost_so_far'[p] # cost_so_far[p]}

\* Twice the cost the claim gives to the step from c to p, in halves as the
\* weight: the oracle's value, 1, and the weight when the step goes straight on.
ClaimedStepCost(c, p) ==
    2 * (oracle[<<automaton[c], automaton[p]>>] + 1)
        + structure_penalty(came_from, c, p, weight)

(* C26: the cost of a step of a_star_moma_cost is exactly the oracle's value
   + 1 + structure_penalty_weight when the step goes on in the direction of
   the step before, and the oracle's value + 1 otherwise, for every weight
   >= 0, weights that are not whole included. *)
StepCostIsExact ==
    [][\A p \in Recosted :
           2 * cost_so_far'[p] =
               2 * cost_so_far[came_from'[p]] + ClaimedStepCost(came_from'[p], p)]_vars

\* The same for the weights that are whole numbers.
StepCostIsExactForWholeWeights ==
    [][weight % 2 = 0 =>
           \A p \in Recosted :
               2 * cost_so_far'[p] =
                   2 * cost_so_far[came_from'[p]] + ClaimedStepCost(came_from'[p], p)]_vars

-----------------------------------------------------------------------------
(* The rule of the penalty controller *)

\* max(old * (1 - decay_rate) + (measured - target_norm) * gain, 0)
RuleOfUpdate(old, measured) ==
    LET v == FracAdd(FracMul(old, FracSub(<<1, 1>>, decay_rate)),
                     FracMul(FracSub(measured, target_norm), proportional_gain))
    IN  IF FracLess(v, <<0, 1>>) THEN <<0, 1>> ELSE v

\* C27 as it is claimed: after every step the weight is the rule's value for
\* the weight carried over from the step before (0 before the first step).
UpdateRuleOfCarriedWeight ==
    steps > 0 => penalty = RuleOfUpdate(penalty_before, norm)

(* C27: after every step of the controller the new weight is
   max(old * (1 - decay_rate) + (measured_norm - target_norm) * gain, 0),
   where old is the weight carried over from the step before (0 before the
   first step) when the measured norm is at least 0.0001, and 0 when the
   measured norm is below 0.0001. *)
UpdateRule ==
    steps > 0 =>
        penalty = RuleOfUpdate(IF FracLess(norm, norm_threshold)
                               THEN <<0, 1>> ELSE penalty_before, norm)

\* A step that measured a norm below 0.0001 with a weight of 3.75 carried
\* over: the rule's value for 3.75 is 2.4625, the new weight is 0.
UpdateRuleWitness ==
    /\ steps > 1
    /\ penalty_before = <<15, 4>>
    /\ FracLess(norm, norm_threshold)
    /\ RuleOfUpdate(penalty_before, norm) # <<0, 1>>
    /\ penalty = <<0, 1>>

-----------------------------------------------------------------------------
(* The adjustment of the flow manager *)

\* The edges whose cost the adjustment has changed.
CostChanged ==
    {id \in EdgeIds(pre) : adj[id[1]][id[2]].cost # pre[id[1]][id[2]].cost}

\* The edge id carries as much flow as any edge of g.
MaximalFlow(g, id) ==
    \A other \in EdgeIds(g) : g[other[1]][other[2]].flow <= g[id[1]][id[2]].flow

(* C28: the adjustment of a step of the flow manager changes the cost of at
   most one edge; when the norm is above the target the edge whose cost is
   raised carries the greatest flow of all edges after the routing; when the
   norm is at or below the target no cost changes. *)
AdjustmentTargetsBusiestEdge ==
    ret.op = "adjust" =>
        /\ DOMAIN adj = DOMAIN pre
        /\ \A n \in DOMAIN adj : Len(adj[n]) = Len(pre[n])
        /\ Cardinality(CostChanged) <= 1
        /\ IF error_positive(gowers_norm, TARGET_GOWERS_NORM)
           THEN /\ Cardinality(CostChanged) = 1
                /\ \A id \in CostChanged :
                       /\ MaximalFlow(pre, id)
                       /\ adj[id[1]][id[2]].cost > pre[id[1]][id[2]].cost
           ELSE CostChanged = {}

\* A step has raised the cost of A -> T, which carries 10 as S -> A does,
\* and it is not the first cost that was raised.
AdjustmentTargetsBusiestEdgeWitness ==
    /\ ret.op = "adjust"
    /\ step > 0
    /\ error_positive(gowers_norm, TARGET_GOWERS_NORM)
    /\ CostChanged = {<<node_a, 1>>}
    /\ pre[node_a][1].flow = 10

\* The flows of the saturated diamond are the same in every step, and their
\* norm is above the target in every step.
NormAlwaysAboveTarget ==
    ret.op = "adjust" => error_positive(gowers_norm, TARGET_GOWERS_NORM)

-----------------------------------------------------------------------------
(* The end of edmonds_karp *)

(* C29: edmonds_karp terminates for every finite graph, graphs with several
   edges between the same ordered pair of nodes and graphs with source ==
   sink included, because every augmentation pushes at least one unit of
   flow: in every state of the loop the iteration to come, when it finds a
   path, pushes at least 1 and leaves the graph with more flow than before.
   The flows being bounded by the capacities, the loop then ends; an
   iteration that finds a path and adds no flow leaves the graph as it is
   and is followed by the same iteration for ever. *)
EdmondsKarpTerminates ==
    pc = "ek" =>
        \A r \in {route_cheapest_path(adj, source, sink)} :
            r.some => /\ r.flow >= 1
                      /\ SumFlow(r.adj, EdgeIds(r.adj)) > SumFlow(adj, EdgeIds(adj))

\* The reason C29 gives, of the augmentations made.
EveryAugmentationPushes == ret.op = "augment" => ret.flow >= 1

\* The loop has made an augmentation of 0 and its next iteration is the same
\* one: the path is found again and the graph stays as it is.
AugmentationStalls ==
    /\ pc = "ek"
    /\ ret.op = "augment" /\ ret.flow = 0
    /\ route_cheapest_path(adj, source, sink).some
    /\ route_cheapest_path(adj, source, sink).adj = adj

\* With source == sink the path has no edge, the bottleneck stays u64::MAX
\* and the sink is found in every iteration.
EmptyPathAugmentation ==
    /\ source = sink
    /\ ret.op = "augment" /\ ret.flow = U64_MAX /\ Len(ret.path) = 1
    /\ route_cheapest_path(adj, source, sink).some

\* In graphs without parallel edges and with source # sink every iteration
\* that finds a path adds flow.
EdmondsKarpTerminatesOnSimpleGraphs ==
    (source # sink /\ NoParallelEdges(adj)) => EdmondsKarpTerminates

-----------------------------------------------------------------------------
(* The value of edmonds_karp *)

\* What leaves node n less what enters it.
NetOut(g, n) == Outflow(g, n) - Inflow(g, n)

(* C30: the value that edmonds_karp returns, when it was called with all
   flows 0, is the net flow out of the source and the net flow into the sink
   of the graph as it is on return. *)
ReturnedValueIsNetFlow ==
    (ret.op = "edmonds_karp" /\ ZeroFlow(pre)) =>
        /\ ret.flow = NetOut(adj, source)
        /\ ret.flow = 0 - NetOut(adj, sink)

\* edmonds_karp has returned 2 after two augmentations.
ReturnedValueIsNetFlowWitness ==
    /\ ret.op = "edmonds_karp" /\ ZeroFlow(pre)
    /\ ret.flow = 2
    /\ iters = 2

\* edmonds_karp has returned a flow in a graph with an edge into the source
\* and an edge out of the sink.
ReturnedWithEdgesBack ==
    /\ ret.op = "edmonds_karp" /\ ZeroFlow(pre)
    /\ ret.flow >= 1
    /\ \E id \in EdgeIds(adj) : adj[id[1]][id[2]].to = source
    /\ \E id \in EdgeIds(adj) : id[1] = sink

=============================================================================
